---------------------------- MODULE Spec2Model ----------------------------
(***************************************************************************)
(* Model of the fact index (edgar_extractor/xbrl_index.py) and of the rule *)
(* engine (edgar_extractor/metrics.py, edgar_extractor/config_schema.py).  *)
(*                                                                         *)
(* Representation of Python values                                         *)
(*   - Optional[T]: a sequence of length <= 1 (None is << >>, x is <<x>>). *)
(*   - str that the code slices, orders or parses (dates, year ranges,     *)
(*     element text, scale): a sequence of character codes, each code the  *)
(*     character's ordinal minus ord("0"); digits are 0..9 and the order   *)
(*     of codes is the order of the characters.                            *)
(*   - str that the code only compares for equality (concepts, names,      *)
(*     units, axes, members, ids): a TLA+ string.                          *)
(*   - float: an exact rational [num, den] in lowest terms, den > 0.       *)
(*   - dict: a function; an insertion-ordered dict whose iteration order   *)
(*     the code depends on is a sequence of entries.                       *)
(***************************************************************************)
EXTENDS Integers, Sequences, FiniteSets, TLC

VARIABLES
    doc,              \* the parsed document: [contexts, elems] (soup)
    cfg,              \* CompanyConfig
    pc,               \* position of the run
    contexts,         \* XBRLIndex.contexts
    facts,            \* XBRLIndex.facts, in insertion (iteration) order
    fi,               \* extract_all: number of facts already iterated
    candidate_facts,  \* extract_all: ordered dict (year, id(rule)) -> [Fact]
    gi,               \* extract_all: number of candidate groups processed
    results,          \* extract_all: results
    placed,           \* history: the writes made into results, in order
    call,             \* argument record of a predicate called on its own
    ret               \* Optional result of that call

vars == <<doc, cfg, pc, contexts, facts, fi, candidate_facts, gi, results,
          placed, call, ret>>

(***************************************************************************)
(* Optional values and small sequence helpers                              *)
(***************************************************************************)
None == << >>

Some(x) == <<x>>

IsNone(o) == o = << >>

\* truth value of an Optional[str] held as a TLA+ string / as characters or a list
TruthyStr(o) == o # << >> /\ o[1] # ""

TruthySeq(o) == o # << >> /\ o[1] # << >>

\* a or b, for Optional[str] attribute values
OrElse(a, b) == IF TruthyStr(a) THEN a ELSE b

Min(S) == CHOOSE x \in S : \A y \in S : x <= y

Range(s) == {s[i] : i \in DOMAIN s}

SeqsUpTo(S, n) == UNION {[1..k -> S] : k \in 1..n}

IndexOf(s, x) == CHOOSE i \in DOMAIN s : s[i] = x /\ \A j \in 1..(i - 1) : s[j] # x

Put(d, k, v) == [x \in (DOMAIN d) \cup {k} |-> IF x = k THEN v ELSE d[x]]

EmptyDict == [x \in {} |-> {}]

(***************************************************************************)
(* Character strings                                                       *)
(***************************************************************************)
Dash == 45 - 48

Comma == 44 - 48

Dot == 46 - 48

Plus == 43 - 48

Space == 32 - 48

LetterX == 120 - 48

Digits == 0..9

\* s < t in Python's str ordering (lexicographic by code point)
RECURSIVE StrLess(_, _)
StrLess(s, t) ==
    IF t = << >> THEN FALSE
    ELSE IF s = << >> THEN TRUE
    ELSE IF s[1] # t[1] THEN s[1] < t[1]
    ELSE StrLess(Tail(s), Tail(t))

\* s[:n]
Prefix(s, n) == SubSeq(s, 1, IF Len(s) < n THEN Len(s) ELSE n)

\* s.strip()
RECURSIVE LStrip(_)
LStrip(s) == IF s # << >> /\ s[1] = Space THEN LStrip(Tail(s)) ELSE s

RECURSIVE RStrip(_)
RStrip(s) ==
    IF s # << >> /\ s[Len(s)] = Space THEN RStrip(SubSeq(s, 1, Len(s) - 1)) ELSE s

Strip(s) == RStrip(LStrip(s))

\* s.replace(c, "")
RECURSIVE Remove(_, _)
Remove(s, c) ==
    IF s = << >> THEN << >>
    ELSE IF s[1] = c THEN Remove(Tail(s), c)
    ELSE <<s[1]>> \o Remove(Tail(s), c)

\* the value of a string of decimal digits
RECURSIVE DigitsValue(_)
DigitsValue(s) ==
    IF s = << >> THEN 0 ELSE 10 * DigitsValue(SubSeq(s, 1, Len(s) - 1)) + s[Len(s)]

IsDigits(s) == s # << >> /\ \A i \in DOMAIN s : s[i] \in Digits

\* int(s): Some(value), or None when int() raises ValueError
ParseInt(s) ==
    LET t == Strip(s)
        signed == t # << >> /\ t[1] \in {Dash, Plus}
        body == IF signed THEN Tail(t) ELSE t
    IN  IF ~IsDigits(body) THEN None
        ELSE IF signed /\ t[1] = Dash THEN Some(0 - DigitsValue(body))
        ELSE Some(DigitsValue(body))

\* s.split("-"): the pieces between the dashes
RECURSIVE SplitDash(_)
SplitDash(s) ==
    IF \A i \in DOMAIN s : s[i] # Dash THEN <<s>>
    ELSE LET k == CHOOSE i \in DOMAIN s : s[i] = Dash /\ \A j \in 1..(i - 1) : s[j] # Dash
         IN  <<SubSeq(s, 1, k - 1)>> \o SplitDash(SubSeq(s, k + 1, Len(s)))

(***************************************************************************)
(* Floats as exact rationals                                               *)
(***************************************************************************)
Abs(n) == IF n < 0 THEN 0 - n ELSE n

RECURSIVE GCD(_, _)
GCD(a, b) == IF b = 0 THEN a ELSE GCD(b, a % b)

Rat(n, d) ==
    LET g == GCD(Abs(n), d)
    IN  IF n = 0 THEN [num |-> 0, den |-> 1] ELSE [num |-> n \div g, den |-> d \div g]

RatInt(n) == [num |-> n, den |-> 1]

RatAdd(a, b) == Rat(a.num * b.den + b.num * a.den, a.den * b.den)

RatLess(a, b) == a.num * b.den < b.num * a.den

RatDivInt(a, k) == Rat(a.num, a.den * k)

RECURSIVE Pow10(_)
Pow10(n) == IF n = 0 THEN 1 ELSE 10 * Pow10(n - 1)

\* a * 10 ** s
RatScale(a, s) == IF s >= 0 THEN Rat(a.num * Pow10(s), a.den) ELSE Rat(a.num, a.den * Pow10(0 - s))

\* float(s) for s over the characters digits , - . + space x: Some(value), or
\* None when float() raises ValueError
ParseFloat(s) ==
    LET t == Strip(s)
        signed == t # << >> /\ t[1] \in {Dash, Plus}
        body == IF signed THEN Tail(t) ELSE t
        dots == {i \in DOMAIN body : body[i] = Dot}
        k == IF dots = {} THEN Len(body) + 1 ELSE CHOOSE i \in dots : TRUE
        whole == SubSeq(body, 1, k - 1)
        frac == SubSeq(body, k + 1, Len(body))
        ok == /\ Cardinality(dots) <= 1
              /\ \A i \in DOMAIN whole : whole[i] \in Digits
              /\ \A i \in DOMAIN frac : frac[i] \in Digits
              /\ Len(whole) + Len(frac) > 0
        mag == Rat(DigitsValue(whole \o frac), Pow10(Len(frac)))
    IN  IF ~ok THEN None
        ELSE IF signed /\ t[1] = Dash THEN Some(Rat(0 - mag.num, mag.den))
        ELSE Some(mag)


(***************************************************************************)
(* Fact index: XBRLIndex                                                   *)
(*                                                                         *)
(* A context element is [id, period, segment]: id an Optional string,      *)
(* period an Optional [startDate, endDate, instant] of Optional texts,     *)
(* segment an Optional sequence of children [name, dimension, text].       *)
(* A document element is [prefix, name, contextRef, contextref, text,      *)
(* unitRef, unitref, decimals, scale].  Member texts are drawn without     *)
(* surrounding blanks.                                                     *)
(***************************************************************************)
StructuralNames ==
    {"xbrl", "schemaref", "context", "entity", "identifier", "period", "startdate",
     "enddate", "instant", "segment", "explicitmember", "unit", "measure"}

StructuralPrefixes == {"link", "xbrldi"}

\* name.lower(), on the spellings of the element names the documents use
Lower(name) ==
    CASE name = "schemaRef" -> "schemaref"
      [] name = "startDate" -> "startdate"
      [] name = "endDate" -> "enddate"
      [] name = "explicitMember" -> "explicitmember"
      [] name = "typedMember" -> "typedmember"
      [] name = "Context" -> "context"
      [] name = "Unit" -> "unit"
      [] OTHER -> name

\* "explicitmember" in name
HasExplicitMember(lname) == lname \in {"explicitmember"}

\* s.text.strip() if s else None
TextOf(o) == IF o = None THEN None ELSE Some(Strip(o[1]))

PeriodKeyOf(ctx) ==
    LET p == ctx.period
        start == IF p = None THEN None ELSE TextOf(p[1].startDate)
        end == IF p = None THEN None ELSE TextOf(p[1].endDate)
        instant == IF p = None THEN None ELSE TextOf(p[1].instant)
    IN  IF TruthySeq(instant) THEN << << >>, instant[1] >>
        ELSE << IF TruthySeq(start) THEN start[1] ELSE << >>,
                IF TruthySeq(end) THEN end[1] ELSE << >> >>

RECURSIVE DimsFrom(_, _)
DimsFrom(children, dims) ==
    IF children = << >> THEN dims
    ELSE LET exp == children[1]
             keep == /\ HasExplicitMember(Lower(exp.name))
                     /\ TruthyStr(exp.dimension)
                     /\ exp.text # ""
         IN  DimsFrom(Tail(children),
                      IF keep THEN Put(dims, exp.dimension[1], exp.text) ELSE dims)

DimsOf(ctx) == IF ctx.segment = None THEN EmptyDict ELSE DimsFrom(ctx.segment[1], EmptyDict)

RECURSIVE IndexContextsFrom(_, _)
IndexContextsFrom(ctxs, out) ==
    IF ctxs = << >> THEN out
    ELSE LET ctx == ctxs[1]
         IN  IndexContextsFrom(Tail(ctxs),
                 IF ~TruthyStr(ctx.id) THEN out
                 ELSE Put(out, ctx.id[1],
                          [period_key |-> PeriodKeyOf(ctx), dims |-> DimsOf(ctx)]))

_index_contexts(d) == IndexContextsFrom(d.contexts, EmptyDict)

FactKey(f) == <<f.concept, f.period_key, f.dims>>

\* mutant of PutFact: a key already in the dict keeps its fact
KeepFirst(fs, f) ==
    IF \E i \in DOMAIN fs : FactKey(fs[i]) = FactKey(f) THEN fs ELSE Append(fs, f)

\* facts[key] = fact on the insertion-ordered dict
PutFact(fs, f) ==
    IF \E i \in DOMAIN fs : FactKey(fs[i]) = FactKey(f)
    THEN [i \in DOMAIN fs |-> IF FactKey(fs[i]) = FactKey(f) THEN f ELSE fs[i]]
    ELSE Append(fs, f)

\* mutant of ApplyScale: val * int(scale) in place of val * 10 ** int(scale)
ScaleAsFactor(val, scale) ==
    IF ~(TruthySeq(scale) /\ scale[1] # <<0>>) THEN [ok |-> TRUE, val |-> val]
    ELSE LET n == ParseInt(scale[1])
         IN  IF n = None THEN [ok |-> FALSE, val |-> val]
             ELSE [ok |-> TRUE, val |-> Rat(val.num * n[1], val.den)]

\* 10 ** int(scale) applied to val: [ok, val]; ok is FALSE when int() raises
ApplyScale(val, scale) ==
    IF ~(TruthySeq(scale) /\ scale[1] # <<0>>) THEN [ok |-> TRUE, val |-> val]
    ELSE LET n == ParseInt(scale[1])
         IN  IF n = None THEN [ok |-> FALSE, val |-> val]
             ELSE [ok |-> TRUE, val |-> RatScale(val, n[1])]

\* mutant of IndexElement: an element without a prefix is indexed under its
\* bare name
IndexUnprefixed(fs, elem, ctxs) ==
    LET skip == [ok |-> TRUE, facts |-> fs]
        ctxid == OrElse(elem.contextRef, elem.contextref)
        text == Strip(elem.text)
        val == ParseFloat(Remove(text, Comma))
        unit == OrElse(OrElse(elem.unitRef, elem.unitref), Some(""))
    IN  IF \/ Lower(elem.name) \in StructuralNames
           \/ (elem.prefix # None /\ elem.prefix[1] \in StructuralPrefixes)
        THEN skip
        ELSE IF ctxid = None THEN skip
        ELSE IF text = << >> THEN skip
        ELSE IF val = None THEN skip
        ELSE IF ctxid[1] \notin DOMAIN ctxs THEN skip
        ELSE LET ctx == ctxs[ctxid[1]]
                 scaled == ApplyScale(val[1], elem.scale)
             IN  IF ~scaled.ok THEN [ok |-> FALSE, facts |-> fs]
                 ELSE [ok |-> TRUE,
                       facts |-> PutFact(fs,
                           [concept |-> IF TruthyStr(elem.prefix)
                                        THEN elem.prefix[1] \o ":" \o elem.name
                                        ELSE elem.name,
                            value |-> scaled.val,
                            unit |-> unit[1],
                            decimals |-> elem.decimals,
                            period_key |-> ctx.period_key,
                            dims |-> ctx.dims,
                            context_id |-> ctxid[1]])]

\* one pass of the loop body of _index_facts: [ok, facts]
IndexElement(fs, elem, ctxs) ==
    LET skip == [ok |-> TRUE, facts |-> fs]
        ctxid == OrElse(elem.contextRef, elem.contextref)
        text == Strip(elem.text)
        val == ParseFloat(Remove(text, Comma))
        unit == OrElse(OrElse(elem.unitRef, elem.unitref), Some(""))
    IN  IF \/ Lower(elem.name) \in StructuralNames
           \/ (elem.prefix # None /\ elem.prefix[1] \in StructuralPrefixes)
        THEN skip
        ELSE IF ~TruthyStr(elem.prefix) THEN skip
        ELSE IF ctxid = None THEN skip
        ELSE IF text = << >> THEN skip
        ELSE IF val = None THEN skip
        ELSE IF ctxid[1] \notin DOMAIN ctxs THEN skip
        ELSE LET ctx == ctxs[ctxid[1]]
                 scaled == ApplyScale(val[1], elem.scale)
             IN  IF ~scaled.ok THEN [ok |-> FALSE, facts |-> fs]
                 ELSE [ok |-> TRUE,
                       facts |-> PutFact(fs,
                           [concept |-> elem.prefix[1] \o ":" \o elem.name,
                            value |-> scaled.val,
                            unit |-> unit[1],
                            decimals |-> elem.decimals,
                            period_key |-> ctx.period_key,
                            dims |-> ctx.dims,
                            context_id |-> ctxid[1]])]

RECURSIVE IndexFactsFrom(_, _, _)
IndexFactsFrom(elems, fs, ctxs) ==
    IF elems = << >> THEN [ok |-> TRUE, facts |-> fs]
    ELSE LET r == IndexElement(fs, elems[1], ctxs)
         IN  IF ~r.ok THEN r ELSE IndexFactsFrom(Tail(elems), r.facts, ctxs)

_index_facts(d, ctxs) == IndexFactsFrom(d.elems, << >>, ctxs)

\* XBRLIndex._year_from_period_key
_year_from_period_key(pkey) ==
    LET date_str == IF pkey[2] # << >> THEN pkey[2] ELSE pkey[1]
    IN  IF date_str # << >> THEN Prefix(date_str, 4) ELSE << >>

list_years(fs) ==
    {_year_from_period_key(fs[i].period_key) : i \in DOMAIN fs} \ {<< >>}


(***************************************************************************)
(* Rule configuration: config_schema.py                                    *)
(*                                                                         *)
(* A MetricRule is [kind |-> "metric", name, aliases, strategy,            *)
(* required_dims, units, period_type, category, filter_for_consolidated,   *)
(* years]; a SegmentRule is [kind |-> "segment", name, concept,            *)
(* required_dims, units, period_type, strategy, filter_for_consolidated,   *)
(* years].  required_dims is an Optional dict axis -> expected, expected   *)
(* either one member (Scalar) or a list of members (List).  id(rule) is    *)
(* the rule's place in the configuration.                                  *)
(***************************************************************************)
PICK_FIRST == "pick_first"

SUM == "sum"

LATEST_IN_YEAR == "latest_in_year"

MAX == "max"

MIN == "min"

AVG == "avg"

Scalar(m) == [isList |-> FALSE, v |-> m]

List(ms) == [isList |-> TRUE, v |-> ms]

MetricId(i) == [kind |-> "metric", i |-> i]

SegmentId(i) == [kind |-> "segment", i |-> i]

RuleOf(c, rid) == IF rid.kind = "metric" THEN c.metrics[rid.i] ELSE c.segments[rid.i]

\* mutant of year_matches_range: the end year is excluded
ExclusiveEnd(year, year_range) ==
    IF ~TruthySeq(year_range) THEN Some(TRUE)
    ELSE LET parts == SplitDash(year_range[1])
         IN  IF Len(parts) = 1 THEN Some(year = DigitsValue(parts[1]))
             ELSE Some(DigitsValue(parts[1]) <= year /\ year < DigitsValue(parts[2]))

\* year_matches_range: Some(bool), or None when int() or the unpacking raises
year_matches_range(year, year_range) ==
    IF ~TruthySeq(year_range) THEN Some(TRUE)
    ELSE LET r == year_range[1]
             parts == SplitDash(r)
         IN  IF Len(parts) = 1
             THEN LET y == ParseInt(r)
                  IN  IF y = None THEN None ELSE Some(year = y[1])
             ELSE IF Len(parts) # 2 THEN None
             ELSE LET a == ParseInt(parts[1])
                      b == ParseInt(parts[2])
                  IN  IF a = None THEN None
                      ELSE IF ~(a[1] <= year) THEN Some(FALSE)
                      ELSE IF b = None THEN None
                      ELSE Some(year <= b[1])

(***************************************************************************)
(* Rule engine: metrics.py                                                 *)
(***************************************************************************)
\* mutant of _year_of_fact: the start slot is preferred over the end slot
YearOfStartFirst(f) ==
    LET date == IF f.period_key[1] # << >> THEN f.period_key[1] ELSE f.period_key[2]
    IN  IF date # << >> THEN Prefix(date, 4) ELSE << >>

_year_of_fact(f) ==
    LET date == IF f.period_key[2] # << >> THEN f.period_key[2] ELSE f.period_key[1]
    IN  IF date # << >> THEN Prefix(date, 4) ELSE << >>

\* mutant of _period_type_of_fact: any key with a second slot is an instant
InstantIfEnd(f) == IF f.period_key[2] # << >> THEN "instant" ELSE "duration"

\* mutant of _period_type_of_fact: any key without a first slot is an instant
InstantIfNoStart(f) == IF f.period_key[1] = << >> THEN "instant" ELSE "duration"

_period_type_of_fact(f) ==
    IF f.period_key[1] = << >> /\ f.period_key[2] # << >> THEN "instant" ELSE "duration"

ExpList(expected) == IF expected.isList THEN expected.v ELSE <<expected.v>>

\* mutant of AxisMatch: an alias with an unexpected member is passed over
AnyKeyMatch(f, axis, expected, aa) ==
    LET exp_list == ExpList(expected)
        aliases == IF axis \in DOMAIN aa THEN aa[axis] ELSE << >>
    IN  IF axis \in DOMAIN f.dims THEN f.dims[axis] \in Range(exp_list)
        ELSE \E i \in DOMAIN aliases :
                /\ aliases[i] \in DOMAIN f.dims
                /\ f.dims[aliases[i]] \in Range(exp_list)

\* one pass of the loop over required.items(): TRUE to continue, FALSE to return False
AxisMatch(f, axis, expected, aa) ==
    LET exp_list == ExpList(expected)
        aliases == IF axis \in DOMAIN aa THEN aa[axis] ELSE << >>
        present == {i \in DOMAIN aliases : aliases[i] \in DOMAIN f.dims}
    IN  IF axis \in DOMAIN f.dims THEN f.dims[axis] \in Range(exp_list)
        ELSE /\ present # {}
             /\ f.dims[aliases[Min(present)]] \in Range(exp_list)

\* mutant of _dims_match: "if not required" in place of "if required is None"
EmptyAsUnset(f, required, axis_aliases) ==
    IF required = None \/ DOMAIN required[1] = {} THEN TRUE
    ELSE LET aa == IF axis_aliases = None THEN EmptyDict ELSE axis_aliases[1]
         IN  \A axis \in DOMAIN required[1] : AxisMatch(f, axis, required[1][axis], aa)

\* mutant of _dims_match: the fact may carry no axis beyond the required ones
ExactDimsMatch(f, required, axis_aliases) ==
    IF required = None THEN TRUE
    ELSE IF DOMAIN required[1] = {} THEN DOMAIN f.dims = {}
    ELSE LET aa == IF axis_aliases = None THEN EmptyDict ELSE axis_aliases[1]
         IN  /\ \A axis \in DOMAIN required[1] : AxisMatch(f, axis, required[1][axis], aa)
             /\ Cardinality(DOMAIN f.dims) = Cardinality(DOMAIN required[1])

_dims_match(f, required, axis_aliases) ==
    IF required = None THEN TRUE
    ELSE IF DOMAIN required[1] = {} THEN DOMAIN f.dims = {}
    ELSE LET aa == IF axis_aliases = None THEN EmptyDict ELSE axis_aliases[1]
         IN  \A axis \in DOMAIN required[1] : AxisMatch(f, axis, required[1][axis], aa)

\* mutant of _unit_match: only the first entry of the whitelist is compared
FirstUnitOnly(f, units) == IF ~TruthySeq(units) THEN TRUE ELSE f.unit = units[1][1]

_unit_match(f, units) == IF ~TruthySeq(units) THEN TRUE ELSE f.unit \in Range(units[1])

_period_type_match(f, ptype) ==
    IF ~TruthyStr(ptype) THEN TRUE ELSE _period_type_of_fact(f) = ptype[1]

\* mutant of _is_consolidated: every consolidated member must be carried
AllConsolidated(f, consolidated_members) ==
    IF DOMAIN f.dims = {} THEN TRUE
    ELSE \A i \in DOMAIN consolidated_members :
            consolidated_members[i] \in {f.dims[a] : a \in DOMAIN f.dims}

_is_consolidated(f, consolidated_members) ==
    IF DOMAIN f.dims = {} THEN TRUE
    ELSE \E i \in DOMAIN consolidated_members :
            consolidated_members[i] \in {f.dims[a] : a \in DOMAIN f.dims}

\* results entries: a float, or a nested dict held as [dict |-> mapping]
Dict(d) == [dict |-> d]

IsDict(e) == "dict" \in DOMAIN e

Get(d, k, default) == IF k \in DOMAIN d THEN d[k] ELSE default

BsPrefix == "balance_sheet."

CategorySuffixes == {"", "assets", "liabilities", "assets.current"}

\* category.startswith("balance_sheet.")
IsBalanceSheet(category) ==
    TruthyStr(category) /\ \E s \in CategorySuffixes : category[1] = BsPrefix \o s

\* category.split(".", 1)[1]
BsCat(category) == CHOOSE s \in CategorySuffixes : category[1] = BsPrefix \o s

\* where _place_value writes rule's value
PlacePath(rule) ==
    IF IsBalanceSheet(rule.category) THEN <<"balance_sheet", BsCat(rule.category), rule.name>>
    ELSE <<rule.name>>

\* _place_value: [ok, results]; ok is FALSE when .setdefault is applied to a float
_place_value(res, year, rule, name, value) ==
    LET ydict == Get(res, year, EmptyDict)
    IN  IF IsBalanceSheet(rule.category)
        THEN LET bs_cat == BsCat(rule.category)
                 bs == Get(ydict, "balance_sheet", Dict(EmptyDict))
             IN  IF ~IsDict(bs) THEN [ok |-> FALSE, results |-> Put(res, year, ydict)]
                 ELSE LET bs_dict == Get(bs.dict, bs_cat, Dict(EmptyDict))
                      IN  [ok |-> TRUE,
                           results |-> Put(res, year,
                               Put(ydict, "balance_sheet",
                                   Dict(Put(bs.dict, bs_cat,
                                            Dict(Put(bs_dict.dict, name, value))))))]
        ELSE [ok |-> TRUE, results |-> Put(res, year, Put(ydict, name, value))]

\* the segment branch of the placement: [ok, results]; ok is FALSE when the
\* item assignment is applied to a float
PlaceSegment(res, year, rule, value) ==
    LET ydict == Get(res, year, EmptyDict)
        segdict == Get(ydict, "segments", Dict(EmptyDict))
    IN  IF ~IsDict(segdict) THEN [ok |-> FALSE, results |-> Put(res, year, ydict)]
        ELSE [ok |-> TRUE,
              results |-> Put(res, year,
                  Put(ydict, "segments", Dict(Put(segdict.dict, rule.name, value))))]

\* Accumulator
NewAccumulator ==
    [count |-> 0, total |-> RatInt(0), max_val |-> None, min_val |-> None,
     latest_value |-> None, latest_date |-> None]

\* mutant of LaterDate: the last candidate iterated is taken as the latest
LastDateWins(acc, date) == TRUE

LaterDate(acc, date) == acc.latest_date = None \/ StrLess(acc.latest_date[1], date)

\* mutant of Update: a call carrying the same date as the latest replaces it
UpdateOnTie(acc, val, date) ==
    [count |-> acc.count + 1,
     total |-> RatAdd(acc.total, val),
     max_val |-> IF acc.max_val = None \/ RatLess(acc.max_val[1], val)
                 THEN Some(val) ELSE acc.max_val,
     min_val |-> IF acc.min_val = None \/ RatLess(val, acc.min_val[1])
                 THEN Some(val) ELSE acc.min_val,
     latest_value |-> IF acc.latest_date = None \/ ~StrLess(date, acc.latest_date[1])
                      THEN Some(val) ELSE acc.latest_value,
     latest_date |-> IF acc.latest_date = None \/ ~StrLess(date, acc.latest_date[1])
                     THEN Some(date) ELSE acc.latest_date]

Update(acc, val, date) ==
    [count |-> acc.count + 1,
     total |-> RatAdd(acc.total, val),
     max_val |-> IF acc.max_val = None \/ RatLess(acc.max_val[1], val)
                 THEN Some(val) ELSE acc.max_val,
     min_val |-> IF acc.min_val = None \/ RatLess(val, acc.min_val[1])
                 THEN Some(val) ELSE acc.min_val,
     latest_value |-> IF LaterDate(acc, date) THEN Some(val) ELSE acc.latest_value,
     latest_date |-> IF LaterDate(acc, date) THEN Some(date) ELSE acc.latest_date]

Result(acc, strategy) ==
    IF acc.count = 0 THEN None
    ELSE IF strategy = SUM THEN Some(acc.total)
    ELSE IF strategy = AVG THEN Some(RatDivInt(acc.total, acc.count))
    ELSE IF strategy = MAX THEN acc.max_val
    ELSE IF strategy = MIN THEN acc.min_val
    ELSE acc.latest_value

\* date = period_key[1] or period_key[0] or ""
DateOf(f) == IF f.period_key[2] # << >> THEN f.period_key[2] ELSE f.period_key[1]

RECURSIVE Accumulate(_, _)
Accumulate(acc, candidates) ==
    IF candidates = << >> THEN acc
    ELSE Accumulate(Update(acc, candidates[1].value, DateOf(candidates[1])),
                    Tail(candidates))

\* _build_concept_to_rules(cfg).get(concept): the ids of the rules listed
\* for the concept, one entry per alias that names it
RECURSIVE AliasHits(_, _, _)
AliasHits(aliases, concept, rid) ==
    IF aliases = << >> THEN << >>
    ELSE (IF aliases[1] = concept THEN <<rid>> ELSE << >>)
         \o AliasHits(Tail(aliases), concept, rid)

RECURSIVE MetricHits(_, _, _)
MetricHits(c, concept, i) ==
    IF i > Len(c.metrics) THEN << >>
    ELSE AliasHits(c.metrics[i].aliases, concept, MetricId(i)) \o MetricHits(c, concept, i + 1)

RECURSIVE SegmentHits(_, _, _)
SegmentHits(c, concept, i) ==
    IF i > Len(c.segments) THEN << >>
    ELSE (IF c.segments[i].concept = concept THEN <<SegmentId(i)>> ELSE << >>)
         \o SegmentHits(c, concept, i + 1)

_build_concept_to_rules(c, concept) == MetricHits(c, concept, 1) \o SegmentHits(c, concept, 1)

\* candidate_facts as an insertion-ordered dict: a sequence of [year, rid, cands]
HasKey(cf, year, rid) == \E i \in DOMAIN cf : cf[i].year = year /\ cf[i].rid = rid

KeyIdx(cf, year, rid) == CHOOSE i \in DOMAIN cf : cf[i].year = year /\ cf[i].rid = rid

Candidates(cf, year, rid) == IF HasKey(cf, year, rid) THEN cf[KeyIdx(cf, year, rid)].cands ELSE << >>

SetCandidates(cf, year, rid, cands) ==
    IF HasKey(cf, year, rid)
    THEN [i \in DOMAIN cf |-> IF i = KeyIdx(cf, year, rid)
                              THEN [year |-> year, rid |-> rid, cands |-> cands]
                              ELSE cf[i]]
    ELSE Append(cf, [year |-> year, rid |-> rid, cands |-> cands])

\* rule.aliases.index(concept) if concept in rule.aliases else float('inf')
Priority(rule, concept) ==
    IF concept \in Range(rule.aliases) THEN IndexOf(rule.aliases, concept)
    ELSE Len(rule.aliases) + 1

\* mutant of HigherPriority: the first match is kept whatever its alias
NeverHigherPriority(rule, f, existing) == FALSE

\* new_priority < existing_priority
HigherPriority(rule, f, existing) == Priority(rule, f.concept) < Priority(rule, existing.concept)

\* the matching predicates applied to a fact for one rule, after the year check
Matches(c, f, rule) ==
    /\ _dims_match(f, rule.required_dims, Some(c.axis_aliases))
    /\ _unit_match(f, rule.units)
    /\ _period_type_match(f, rule.period_type)
    /\ (rule.filter_for_consolidated => _is_consolidated(f, c.consolidated_members))

\* candidate collection for a matching fact
Collect(cf, f, year, rid, rule) ==
    IF rule.strategy = PICK_FIRST
    THEN IF ~HasKey(cf, year, rid) THEN SetCandidates(cf, year, rid, <<f>>)
         ELSE IF rule.kind = "metric" /\ HigherPriority(rule, f, Candidates(cf, year, rid)[1])
         THEN SetCandidates(cf, year, rid, <<f>>)
         ELSE cf
    ELSE SetCandidates(cf, year, rid, Append(Candidates(cf, year, rid), f))

\* mutant of CollectOne: the year range of the rule is not consulted
CollectOneAnyYear(c, cf, f, year, rid) ==
    LET rule == RuleOf(c, rid)
    IN  IF ~Matches(c, f, rule) THEN [ok |-> TRUE, cf |-> cf]
        ELSE [ok |-> TRUE, cf |-> Collect(cf, f, year, rid, rule)]

\* one pass of "for rule in rules": [ok, cf]; ok is FALSE when the year check raises
CollectOne(c, cf, f, year, rid) ==
    LET rule == RuleOf(c, rid)
        y == ParseInt(year)
        in_range == IF y = None THEN None ELSE year_matches_range(y[1], rule.years)
    IN  IF in_range = None THEN [ok |-> FALSE, cf |-> cf]
        ELSE IF ~in_range[1] THEN [ok |-> TRUE, cf |-> cf]
        ELSE IF ~Matches(c, f, rule) THEN [ok |-> TRUE, cf |-> cf]
        ELSE [ok |-> TRUE, cf |-> Collect(cf, f, year, rid, rule)]

RECURSIVE CollectRules(_, _, _, _, _)
CollectRules(c, cf, f, year, rids) ==
    IF rids = << >> THEN [ok |-> TRUE, cf |-> cf]
    ELSE LET r == CollectOne(c, cf, f, year, rids[1])
         IN  IF ~r.ok THEN r ELSE CollectRules(c, r.cf, f, year, Tail(rids))

\* one pass of "for f in index.facts.values()": [ok, cf]
CollectFact(c, cf, f) ==
    LET rules == _build_concept_to_rules(c, f.concept)
        year == _year_of_fact(f)
    IN  IF rules = << >> \/ year = << >> THEN [ok |-> TRUE, cf |-> cf]
        ELSE CollectRules(c, cf, f, year, rules)

\* PICK_FIRST selection among the candidates: Optional fact
RECURSIVE FirstByAlias(_, _)
FirstByAlias(aliases, candidates) ==
    IF aliases = << >> THEN None
    ELSE LET hits == {i \in DOMAIN candidates : candidates[i].concept = aliases[1]}
         IN  IF hits # {} THEN Some(candidates[Min(hits)])
             ELSE FirstByAlias(Tail(aliases), candidates)

\* final_value of a candidate group: Optional float
FinalValue(rule, candidates) ==
    LET aliases == IF rule.kind = "segment" THEN <<rule.concept>> ELSE rule.aliases
    IN  IF rule.strategy = PICK_FIRST
        THEN LET found_fact == FirstByAlias(aliases, candidates)
             IN  IF found_fact = None THEN None ELSE Some(found_fact[1].value)
        ELSE Result(Accumulate(NewAccumulator, candidates), rule.strategy)


(***************************************************************************)
(* Missing-data report: _report_missing_data(results, cfg, target_years)   *)
(*                                                                         *)
(* target_years is a sequence of integers; str(year) is the four-digit     *)
(* text.  Each section of the report is a dict from a name to a list of    *)
(* years.                                                                  *)
(***************************************************************************)
\* str(year)
YearStr(year) ==
    <<year \div 1000, (year \div 100) % 10, (year \div 10) % 10, year % 10>>

\* year_matches_range(year, rule.years): Some(bool), or None when it raises
RuleApplies(year, rule) == year_matches_range(year, rule.years)

\* the test of the balance-sheet branch: "missing", "present", or "raise"
\* when "in" is applied to a float
BsMissing(res, rule, year) ==
    LET ys == YearStr(year)
        bs_cat == BsCat(rule.category)
    IN  IF ys \notin DOMAIN res THEN "missing"
        ELSE IF "balance_sheet" \notin DOMAIN res[ys] THEN "missing"
        ELSE IF ~IsDict(res[ys]["balance_sheet"]) THEN "raise"
        ELSE IF bs_cat \notin DOMAIN res[ys]["balance_sheet"].dict THEN "missing"
        ELSE IF ~IsDict(res[ys]["balance_sheet"].dict[bs_cat]) THEN "raise"
        ELSE IF rule.name \notin DOMAIN res[ys]["balance_sheet"].dict[bs_cat].dict
        THEN "missing"
        ELSE "present"

\* the test of the regular-metric branch
MetricMissing(res, rule, year) ==
    LET ys == YearStr(year)
    IN  IF ys \notin DOMAIN res \/ rule.name \notin DOMAIN res[ys] THEN "missing"
        ELSE "present"

\* the test of the segment loop
SegmentMissing(res, rule, year) ==
    LET ys == YearStr(year)
    IN  IF ys \notin DOMAIN res THEN "missing"
        ELSE IF "segments" \notin DOMAIN res[ys] THEN "missing"
        ELSE IF ~IsDict(res[ys]["segments"]) THEN "raise"
        ELSE IF rule.name \notin DOMAIN res[ys]["segments"].dict THEN "missing"
        ELSE "present"

\* the section and the name a rule reports under
SectionOf(rule) ==
    IF rule.kind = "segment" THEN "segments"
    ELSE IF IsBalanceSheet(rule.category) THEN "balance_sheet" ELSE "metrics"

ReportNameOf(rule) ==
    IF rule.kind = "metric" /\ IsBalanceSheet(rule.category) THEN BsCat(rule.category)
    ELSE rule.name

TestOf(res, rule, year) ==
    IF rule.kind = "segment" THEN SegmentMissing(res, rule, year)
    ELSE IF IsBalanceSheet(rule.category) THEN BsMissing(res, rule, year)
    ELSE MetricMissing(res, rule, year)

\* missing[section].setdefault(name, []).append(year)
AppendYear(missing, section, name, year) ==
    [missing EXCEPT ![section] =
        Put(@, name, (IF name \in DOMAIN @ THEN @[name] ELSE << >>) \o <<year>>)]

\* "for year in target_years" for one rule: [ok, missing]
RECURSIVE ReportYears(_, _, _, _)
ReportYears(missing, res, rule, years) ==
    IF years = << >> THEN [ok |-> TRUE, missing |-> missing]
    ELSE LET applies == RuleApplies(years[1], rule)
         IN  IF applies = None THEN [ok |-> FALSE, missing |-> missing]
             ELSE IF ~applies[1] THEN ReportYears(missing, res, rule, Tail(years))
             ELSE LET t == TestOf(res, rule, years[1])
                  IN  IF t = "raise" THEN [ok |-> FALSE, missing |-> missing]
                      ELSE ReportYears(
                               IF t = "missing"
                               THEN AppendYear(missing, SectionOf(rule),
                                               ReportNameOf(rule), years[1])
                               ELSE missing,
                               res, rule, Tail(years))

\* "for rule in cfg.metrics", then "for rule in cfg.segments": [ok, missing]
RECURSIVE ReportRules(_, _, _, _)
ReportRules(missing, res, rules, years) ==
    IF rules = << >> THEN [ok |-> TRUE, missing |-> missing]
    ELSE LET r == ReportYears(missing, res, rules[1], years)
         IN  IF ~r.ok THEN r ELSE ReportRules(r.missing, res, Tail(rules), years)

\* sorted(list(set(years)))
RECURSIVE SortedOf(_)
SortedOf(S) == IF S = {} THEN << >> ELSE <<Min(S)>> \o SortedOf(S \ {Min(S)})

\* _report_missing_data: [ok, missing]; ok is FALSE when it raises
_report_missing_data(res, c, target_years) ==
    LET empty == [s \in {"metrics", "segments", "balance_sheet"} |-> EmptyDict]
        r == ReportRules(empty, res, c.metrics \o c.segments, target_years)
    IN  [ok |-> r.ok,
         missing |-> [s \in DOMAIN r.missing |->
                         [n \in DOMAIN r.missing[s] |-> SortedOf(Range(r.missing[s][n]))]]]

\* mutant of ResultsAfterReport: results.setdefault(str(year), {}) for
\* every target year
ReportSetsDefault(res, c, target_years) ==
    [y \in DOMAIN res \cup {YearStr(target_years[i]) : i \in DOMAIN target_years} |->
        IF y \in DOMAIN res THEN res[y] ELSE EmptyDict]

\* results as _report_missing_data leaves it: the function reads results
\* with "in" and indexing and assigns into its local "missing" only
ResultsAfterReport(res, c, target_years) == res

(***************************************************************************)
(* The run: XBRLIndex(xml_text), then extract_all(index, cfg)              *)
(***************************************************************************)
\* XBRLIndex.__init__: self.contexts = self._index_contexts()
IndexContexts ==
    /\ pc = "contexts"
    /\ contexts' = _index_contexts(doc)
    /\ pc' = "facts"
    /\ UNCHANGED <<doc, cfg, facts, fi, candidate_facts, gi, results, placed, call, ret>>

\* XBRLIndex.__init__: self.facts = self._index_facts(); an int(scale) that
\* raises ends the run.  extract_all over an empty index returns {} at once.
IndexFacts ==
    /\ pc = "facts"
    /\ LET r == _index_facts(doc, contexts)
       IN  /\ facts' = r.facts
           /\ pc' = IF ~r.ok THEN "error" ELSE IF r.facts = << >> THEN "done" ELSE "collect"
    /\ UNCHANGED <<doc, cfg, contexts, fi, candidate_facts, gi, results, placed, call, ret>>

\* extract_all: one pass of the loop over index.facts.values()
CollectStep ==
    /\ pc = "collect"
    /\ fi < Len(facts)
    /\ LET r == CollectFact(cfg, candidate_facts, facts[fi + 1])
       IN  /\ candidate_facts' = r.cf
           /\ fi' = fi + 1
           /\ pc' = IF ~r.ok THEN "error"
                    ELSE IF fi + 1 < Len(facts) THEN "collect"
                    ELSE IF r.cf = << >> THEN "done" ELSE "aggregate"
    /\ UNCHANGED <<doc, cfg, contexts, facts, gi, results, placed, call, ret>>

\* extract_all: one pass of the loop over candidate_facts.items()
PlaceStep ==
    /\ pc = "aggregate"
    /\ gi < Len(candidate_facts)
    /\ LET g == candidate_facts[gi + 1]
           rule == RuleOf(cfg, g.rid)
           final_value == FinalValue(rule, g.cands)
           w == IF final_value = None THEN [ok |-> TRUE, results |-> results]
                ELSE IF rule.kind = "segment"
                THEN PlaceSegment(results, g.year, rule, final_value[1])
                ELSE _place_value(results, g.year, rule, rule.name, final_value[1])
       IN  /\ results' = w.results
           /\ placed' = IF final_value = None \/ ~w.ok THEN placed
                        ELSE Append(placed,
                                 [year |-> g.year, rid |-> g.rid, value |-> final_value[1],
                                  path |-> IF rule.kind = "segment"
                                           THEN <<"segments", rule.name>>
                                           ELSE PlacePath(rule)])
           /\ gi' = gi + 1
           /\ pc' = IF ~w.ok THEN "error"
                    ELSE IF gi + 1 < Len(candidate_facts) THEN "aggregate" ELSE "done"
    /\ UNCHANGED <<doc, cfg, contexts, facts, fi, candidate_facts, call, ret>>

Next == IndexContexts \/ IndexFacts \/ CollectStep \/ PlaceStep

\* the state before XBRLIndex(xml_text) for document d and configuration c
Start(d, c) ==
    /\ doc = d
    /\ cfg = c
    /\ pc = "contexts"
    /\ contexts = EmptyDict
    /\ facts = << >>
    /\ fi = 0
    /\ candidate_facts = << >>
    /\ gi = 0
    /\ results = EmptyDict
    /\ placed = << >>
    /\ call = None
    /\ ret = None

(***************************************************************************)
(* Inputs                                                                  *)
(***************************************************************************)
MaxElems == 3

\* two digits
D2(n) == <<n \div 10, n % 10>>

\* four digits
D4(n) == <<n \div 1000, (n \div 100) % 10, (n \div 10) % 10, n % 10>>

\* an ISO date yyyy-mm-dd
Iso(y, m, d) == D4(y) \o <<Dash>> \o D2(m) \o <<Dash>> \o D2(d)

DurationCtx(id, start, end, members) ==
    [id |-> Some(id),
     period |-> Some([startDate |-> Some(start), endDate |-> Some(end), instant |-> None]),
     segment |-> IF members = << >> THEN None ELSE Some(members)]

InstantCtx(id, instant, members) ==
    [id |-> Some(id),
     period |-> Some([startDate |-> None, endDate |-> None, instant |-> Some(instant)]),
     segment |-> IF members = << >> THEN None ELSE Some(members)]

Member(axis, member) == [name |-> "explicitMember", dimension |-> Some(axis), text |-> member]

\* a well-formed fact element us-gaap:<name> with the given text
FactElem(name, ctxid, unit, text) ==
    [prefix |-> Some("us-gaap"), name |-> name, contextRef |-> Some(ctxid),
     contextref |-> None, text |-> text, unitRef |-> Some(unit), unitref |-> None,
     decimals |-> Some("0"), scale |-> None]

\* the i-th fact element of a document carries the text "i0" (10, 20, 30, ...)
TextAt(i) == <<i, 0>>

\* documents: the contexts ctxs, then 1..MaxElems fact elements, each of a
\* shape <<concept name, context id, unit>> drawn from shapes
Documents(ctxs, shapes) ==
    {[contexts |-> ctxs,
      elems |-> [i \in DOMAIN sh |-> FactElem(sh[i][1], sh[i][2], sh[i][3], TextAt(i))]] :
        sh \in SeqsUpTo(shapes, MaxElems)}

Metric(name, aliases, strategy) ==
    [kind |-> "metric", name |-> name, aliases |-> aliases, strategy |-> strategy,
     required_dims |-> None, units |-> None, period_type |-> None, category |-> None,
     filter_for_consolidated |-> FALSE, years |-> None]

Segment(name, concept, strategy) ==
    [kind |-> "segment", name |-> name, concept |-> concept, required_dims |-> None,
     units |-> None, period_type |-> None, strategy |-> strategy,
     filter_for_consolidated |-> FALSE, years |-> None]

Config(metrics, segments) ==
    [axis_aliases |-> EmptyDict, consolidated_members |-> << >>,
     metrics |-> metrics, segments |-> segments]

A == "us-gaap:A"

B == "us-gaap:B"

(***************************************************************************)
(* Definitions the properties share                                        *)
(***************************************************************************)
RuleIds(c) == {MetricId(i) : i \in DOMAIN c.metrics} \cup {SegmentId(i) : i \in DOMAIN c.segments}

\* the concepts a rule reads
ConceptsOf(rule) == IF rule.kind = "segment" THEN {rule.concept} ELSE Range(rule.aliases)

\* where extract_all writes the value of a rule
PathOf(rule) == IF rule.kind = "segment" THEN <<"segments", rule.name>> ELSE PlacePath(rule)

RECURSIVE Lookup(_, _)
Lookup(d, path) ==
    IF path[1] \notin DOMAIN d THEN None
    ELSE IF Len(path) = 1 THEN Some(d[path[1]])
    ELSE IF ~IsDict(d[path[1]]) THEN None
    ELSE Lookup(d[path[1]].dict, Tail(path))

\* the Optional entry of results at results[year][path...]
ValueAt(res, year, path) == IF year \in DOMAIN res THEN Lookup(res[year], path) ELSE None

\* the facts of the index (by position) that satisfy every matching predicate
\* for (year, rule)
Qualifying(c, fs, year, rule) ==
    {i \in DOMAIN fs :
        /\ fs[i].concept \in ConceptsOf(rule)
        /\ year # << >>
        /\ _year_of_fact(fs[i]) = year
        /\ year_matches_range(DigitsValue(year), rule.years) = Some(TRUE)
        /\ Matches(c, fs[i], rule)}

RECURSIVE SumOver(_, _)
SumOver(fs, S) ==
    IF S = {} THEN RatInt(0)
    ELSE LET i == CHOOSE x \in S : TRUE IN RatAdd(fs[i].value, SumOver(fs, S \ {i}))

RatLeq(a, b) == a.num * b.den <= b.num * a.den

\* the aggregate of the values of the facts at the positions S
AggregateOf(strategy, fs, S) ==
    CASE strategy = SUM -> SumOver(fs, S)
      [] strategy = AVG -> Rat(SumOver(fs, S).num, SumOver(fs, S).den * Cardinality(S))
      [] strategy = MAX -> fs[CHOOSE i \in S : \A j \in S : RatLeq(fs[j].value, fs[i].value)].value
      [] strategy = MIN -> fs[CHOOSE i \in S : \A j \in S : RatLeq(fs[i].value, fs[j].value)].value

\* s <= t in lexicographic order: at the first place where they differ s is
\* smaller, or s is a prefix of t
LexLeq(s, t) ==
    \E k \in 0..Len(s) :
        /\ k <= Len(t)
        /\ \A j \in 1..k : s[j] = t[j]
        /\ \/ k = Len(s)
           \/ (k < Len(t) /\ s[k + 1] < t[k + 1])

(***************************************************************************)
(* Spec: aggregation.  Facts of two concepts over three periods of 2024    *)
(* and one of 2023, one of them dimensional; one rule, a metric over an    *)
(* alias list or a segment over a required member.                         *)
(***************************************************************************)
AggContexts ==
    <<DurationCtx("Q1", Iso(2024, 1, 1), Iso(2024, 3, 31), << >>),
      DurationCtx("H1", Iso(2024, 1, 1), Iso(2024, 6, 30), << >>),
      DurationCtx("Q1s", Iso(2024, 1, 1), Iso(2024, 3, 31), <<Member("Axis", "SegA")>>),
      InstantCtx("P", Iso(2023, 12, 31), << >>)>>

AggDocs == Documents(AggContexts, {"A", "B"} \X {"Q1", "H1", "Q1s", "P"} \X {"USD"})

AggStrategies == {SUM, AVG, MAX, MIN, LATEST_IN_YEAR}

AggConfigs ==
    {Config(<<Metric("m", al, st)>>, << >>) :
        al \in {<<A>>, <<A, B>>, <<A, A>>}, st \in AggStrategies}
    \cup
    {Config(<< >>, <<[Segment("s", A, st) EXCEPT
                        !.required_dims = Some([x \in {"Axis"} |-> Scalar("SegA")])]>>) :
        st \in AggStrategies}

Init == \E d \in AggDocs, c \in AggConfigs : Start(d, c)

Spec == Init /\ [][Next]_vars

\* C2: for a sum, avg, max or min rule the value placed for (year, rule) is
\* the sum, mean, maximum or minimum of the values of exactly the facts that
\* satisfy all matching predicates for that (year, rule)
C2_AggregateOverQualifying ==
    pc = "done" =>
        \A rid \in RuleIds(cfg), year \in list_years(facts) :
            LET rule == RuleOf(cfg, rid)
                Q == Qualifying(cfg, facts, year, rule)
            IN  (rule.strategy \in {SUM, AVG, MAX, MIN} /\ Q # {}) =>
                    ValueAt(results, year, PathOf(rule))
                        = Some(AggregateOf(rule.strategy, facts, Q))

\* C3: for a latest_in_year rule the value placed for (year, rule) is the
\* value of a qualifying fact whose date (end slot, else start slot) is the
\* lexicographically greatest among the qualifying facts of that (year, rule)
C3_LatestInYear ==
    pc = "done" =>
        \A rid \in RuleIds(cfg), year \in list_years(facts) :
            LET rule == RuleOf(cfg, rid)
                Q == Qualifying(cfg, facts, year, rule)
            IN  (rule.strategy = LATEST_IN_YEAR /\ Q # {}) =>
                    \E i \in Q :
                        /\ ValueAt(results, year, PathOf(rule)) = Some(facts[i].value)
                        /\ \A j \in Q : LexLeq(DateOf(facts[j]), DateOf(facts[i]))

\* two facts of 2024 qualify and the one with the later date is iterated first
C3_Witness ==
    /\ pc = "done"
    /\ cfg.metrics # << >>
    /\ cfg.metrics[1].strategy = LATEST_IN_YEAR
    /\ Len(facts) >= 2
    /\ facts[1].concept = A /\ facts[2].concept = A
    /\ DateOf(facts[1]) = Iso(2024, 6, 30)
    /\ DateOf(facts[2]) = Iso(2024, 3, 31)
    /\ ValueAt(results, D4(2024), <<"m">>) = Some(facts[1].value)

(***************************************************************************)
(* SpecPick: alias priority.  Facts of two concepts, in USD or EUR, over   *)
(* two periods of 2024 and one of 2023; one pick_first metric rule over an *)
(* alias list, with or without a unit whitelist.                           *)
(***************************************************************************)
PickShapes == {"A", "B"} \X {<<"Q1", "USD">>, <<"H1", "USD">>, <<"Q1", "EUR">>, <<"P", "USD">>}

PickDocs == Documents(AggContexts, {<<x[1], x[2][1], x[2][2]>> : x \in PickShapes})

PickConfigs ==
    {Config(<<[Metric("m", al, PICK_FIRST) EXCEPT !.units = u]>>, << >>) :
        al \in {<<A, B>>, <<B, A>>, <<A>>, <<A, B, A>>}, u \in {None, Some(<<"USD">>)}}

InitPick == \E d \in PickDocs, c \in PickConfigs : Start(d, c)

SpecPick == InitPick /\ [][Next]_vars

\* the first position of concept c in the alias list
AliasPos(aliases, c) == Min({k \in DOMAIN aliases : aliases[k] = c})

\* C1: for a pick_first metric rule, whenever some fact satisfies all matching
\* predicates for (year, rule), the value placed is the value of a qualifying
\* fact whose concept has the smallest position in rule.aliases among the
\* qualifying facts, whatever the iteration order
C1_PickFirstAliasPriority ==
    pc = "done" =>
        \A rid \in RuleIds(cfg), year \in list_years(facts) :
            LET rule == RuleOf(cfg, rid)
                Q == Qualifying(cfg, facts, year, rule)
            IN  (rule.kind = "metric" /\ rule.strategy = PICK_FIRST /\ Q # {}) =>
                    \E i \in Q :
                        /\ ValueAt(results, year, PathOf(rule)) = Some(facts[i].value)
                        /\ \A j \in Q : AliasPos(rule.aliases, facts[i].concept)
                                          <= AliasPos(rule.aliases, facts[j].concept)

\* aliases [A, B]; a qualifying fact of B is iterated before a qualifying
\* fact of A of the same year, and A's value is the one placed
C1_Witness ==
    /\ pc = "done"
    /\ cfg.metrics[1].aliases = <<A, B>>
    /\ Len(facts) >= 2
    /\ facts[1].concept = B /\ facts[2].concept = A
    /\ {1, 2} \subseteq Qualifying(cfg, facts, D4(2024), cfg.metrics[1])
    /\ ValueAt(results, D4(2024), <<"m">>) = Some(facts[2].value)
    /\ facts[1].value # facts[2].value

(***************************************************************************)
(* SpecCons: the consolidated restriction.  Facts of one concept and one   *)
(* period whose contexts carry no dimension, a consolidated member, a      *)
(* segment member, or a segment member and a total member; one sum or      *)
(* pick_first rule, metric or segment, with or without the flag, under     *)
(* zero, one or two declared consolidated members.                         *)
(***************************************************************************)
ConsContexts ==
    <<DurationCtx("N", Iso(2024, 1, 1), Iso(2024, 12, 31), << >>),
      DurationCtx("C", Iso(2024, 1, 1), Iso(2024, 12, 31), <<Member("Axis", "ConsMember")>>),
      DurationCtx("S", Iso(2024, 1, 1), Iso(2024, 12, 31), <<Member("Axis", "SegA")>>),
      DurationCtx("ST", Iso(2024, 1, 1), Iso(2024, 12, 31),
                  <<Member("Axis", "SegA"), Member("Axis2", "TotalMember")>>)>>

ConsDocs == Documents(ConsContexts, {"A"} \X {"N", "C", "S", "ST"} \X {"USD"})

ConsConfigs ==
    {[Config(IF k = "metric"
             THEN <<[Metric("m", <<A>>, st) EXCEPT !.filter_for_consolidated = flag]>>
             ELSE << >>,
             IF k = "segment"
             THEN <<[Segment("s", A, st) EXCEPT !.filter_for_consolidated = flag]>>
             ELSE << >>)
        EXCEPT !.consolidated_members = cm] :
        k \in {"metric", "segment"}, st \in {SUM, PICK_FIRST}, flag \in BOOLEAN,
        cm \in {<< >>, <<"ConsMember">>, <<"ConsMember", "TotalMember">>}}

InitCons == \E d \in ConsDocs, c \in ConsConfigs : Start(d, c)

SpecCons == InitCons /\ [][Next]_vars

\* the fact has no dimensions, or one of its members is a declared
\* consolidated member
ConsolidatedFact(f, members) ==
    \/ DOMAIN f.dims = {}
    \/ \E a \in DOMAIN f.dims : f.dims[a] \in Range(members)

\* the facts (by position) of the rule's concept and of the year that the
\* consolidated restriction lets through
ConsExpected(rule, year) ==
    {i \in DOMAIN facts :
        /\ facts[i].concept \in ConceptsOf(rule)
        /\ _year_of_fact(facts[i]) = year
        /\ (rule.filter_for_consolidated =>
                ConsolidatedFact(facts[i], cfg.consolidated_members))}

\* C7: for a rule with filter_for_consolidated set every candidate has no
\* dimensions or carries a declared consolidated member, so a dimensional
\* fact without one never contributes (none does when consolidated_members
\* is empty); a rule without the flag takes the facts whatever
\* consolidated_members holds
C7_ConsolidatedRestriction ==
    /\ \A k \in DOMAIN candidate_facts :
          LET g == candidate_facts[k]
          IN  \A n \in DOMAIN g.cands :
                  RuleOf(cfg, g.rid).filter_for_consolidated =>
                      ConsolidatedFact(g.cands[n], cfg.consolidated_members)
    /\ pc = "done" =>
          \A rid \in RuleIds(cfg), year \in list_years(facts) :
              LET rule == RuleOf(cfg, rid)
                  E == ConsExpected(rule, year)
                  v == ValueAt(results, year, PathOf(rule))
              IN  /\ (E = {}) = (v = None)
                  /\ (E # {} /\ rule.strategy = SUM) => v = Some(SumOver(facts, E))
                  /\ (E # {} /\ rule.strategy = PICK_FIRST) =>
                        \E i \in E : v = Some(facts[i].value)

\* a flagged sum rule under one declared consolidated member: a segment fact
\* is iterated first and a consolidated one second, and only the second counts
C7_Witness ==
    /\ pc = "done"
    /\ cfg.consolidated_members = <<"ConsMember">>
    /\ cfg.metrics # << >>
    /\ cfg.metrics[1].filter_for_consolidated
    /\ cfg.metrics[1].strategy = SUM
    /\ Len(facts) = 2
    /\ facts[1].context_id = "S" /\ facts[2].context_id = "C"
    /\ ValueAt(results, D4(2024), <<"m">>) = Some(facts[2].value)

(***************************************************************************)
(* SpecYear: year applicability.  Facts of one concept in the years        *)
(* 2020..2023; one sum rule, metric or segment, whose range is unset,      *)
(* empty, a single year or a "start-end" pair over those years.            *)
(***************************************************************************)
YearsU == {2020, 2021, 2022, 2023}

YearContexts ==
    <<InstantCtx("Y20", Iso(2020, 12, 31), << >>),
      DurationCtx("Y21", Iso(2021, 1, 1), Iso(2021, 12, 31), << >>),
      InstantCtx("Y22", Iso(2022, 12, 31), << >>),
      DurationCtx("Y23", Iso(2023, 1, 1), Iso(2023, 12, 31), << >>)>>

YearDocs == Documents(YearContexts, {"A"} \X {"Y20", "Y21", "Y22", "Y23"} \X {"USD"})

\* "start-end"
RangeStr(a, b) == D4(a) \o <<Dash>> \o D4(b)

YearRanges ==
    {None, Some(<< >>)} \cup {Some(D4(y)) : y \in YearsU}
    \cup {Some(RangeStr(a, b)) : a \in YearsU, b \in YearsU}

YearConfigs ==
    {Config(<<[Metric("m", <<A>>, SUM) EXCEPT !.years = yr]>>, << >>) : yr \in YearRanges}
    \cup {Config(<< >>, <<[Segment("s", A, SUM) EXCEPT !.years = yr]>>) : yr \in YearRanges}

InitYear == \E d \in YearDocs, c \in YearConfigs : Start(d, c)

SpecYear == InitYear /\ [][Next]_vars

\* year y is in the declared range: unset, the single year, or start..end
InDeclaredRange(y, yr) ==
    \/ yr = None
    \/ yr = Some(<< >>)
    \/ \E a \in YearsU : yr = Some(D4(a)) /\ y = a
    \/ \E a \in YearsU, b \in YearsU : yr = Some(RangeStr(a, b)) /\ a <= y /\ y <= b

\* the year a year string writes
YearNum(year) == CHOOSE y \in YearsU : D4(y) = year

\* C8: a rule takes a fact exactly when the fact's year is in the rule's
\* range (always when the range is unset, the year itself for a single year,
\* start <= y <= end for "start-end"), so no value is placed under a year
\* outside the range
C8_YearApplicability ==
    /\ \A k \in DOMAIN candidate_facts :
          InDeclaredRange(YearNum(candidate_facts[k].year),
                          RuleOf(cfg, candidate_facts[k].rid).years)
    /\ pc = "done" =>
          \A rid \in RuleIds(cfg), year \in list_years(facts) :
              LET rule == RuleOf(cfg, rid)
                  F == {i \in DOMAIN facts : _year_of_fact(facts[i]) = year}
              IN  ValueAt(results, year, PathOf(rule))
                    = IF InDeclaredRange(YearNum(year), rule.years)
                      THEN Some(SumOver(facts, F)) ELSE None

\* the range "2020-2022" with facts of 2022 and 2023: the end year counts and
\* nothing is placed under 2023
C8_Witness ==
    /\ pc = "done"
    /\ cfg.metrics # << >>
    /\ cfg.metrics[1].years = Some(RangeStr(2020, 2022))
    /\ {D4(2022), D4(2023)} \subseteq list_years(facts)
    /\ ValueAt(results, D4(2022), <<"m">>) # None
    /\ D4(2023) \notin DOMAIN results

(***************************************************************************)
(* SpecPeriod: period types.  Facts of one concept whose contexts carry a  *)
(* duration, an instant, a start date only, an end date only, or no period *)
(* at all; one sum rule, metric or segment, with period_type unset, empty, *)
(* "duration" or "instant".                                                *)
(***************************************************************************)
StartOnlyCtx(id, start) ==
    [id |-> Some(id),
     period |-> Some([startDate |-> Some(start), endDate |-> None, instant |-> None]),
     segment |-> None]

EndOnlyCtx(id, end) ==
    [id |-> Some(id),
     period |-> Some([startDate |-> None, endDate |-> Some(end), instant |-> None]),
     segment |-> None]

NoPeriodCtx(id) == [id |-> Some(id), period |-> None, segment |-> None]

PeriodContexts ==
    <<DurationCtx("D", Iso(2024, 1, 1), Iso(2024, 12, 31), << >>),
      InstantCtx("I", Iso(2024, 12, 31), << >>),
      StartOnlyCtx("S", Iso(2024, 1, 1)),
      EndOnlyCtx("E", Iso(2024, 6, 30)),
      NoPeriodCtx("N")>>

PeriodDocs == Documents(PeriodContexts, {"A"} \X {"D", "I", "S", "E", "N"} \X {"USD"})

PeriodTypes == {None, Some(""), Some("duration"), Some("instant")}

PeriodConfigs ==
    {Config(<<[Metric("m", <<A>>, SUM) EXCEPT !.period_type = pt]>>, << >>) :
        pt \in PeriodTypes}
    \cup {Config(<< >>, <<[Segment("s", A, SUM) EXCEPT !.period_type = pt]>>) :
        pt \in PeriodTypes}

InitPeriod == \E d \in PeriodDocs, c \in PeriodConfigs : Start(d, c)

SpecPeriod == InitPeriod /\ [][Next]_vars

\* instant: first slot empty and second slot non-empty; duration otherwise
ClassOf(period_key) ==
    IF period_key[1] = << >> /\ period_key[2] # << >> THEN "instant" ELSE "duration"

\* the fact is among the candidates of the rule for the fact's year
IsCandidate(f, rid) == f \in Range(Candidates(candidate_facts, _year_of_fact(f), rid))

NoPeriodKey == << << >>, << >> >>

\* C9: once every fact is collected, a dated fact is taken by a rule exactly
\* when the rule declares no period_type or declares the fact's
\* classification: instant when the first slot of the period key is empty and
\* the second is not, duration otherwise
C9_PeriodTypeMatch ==
    pc \in {"aggregate", "done"} =>
        \A rid \in RuleIds(cfg), i \in DOMAIN facts :
            LET pt == RuleOf(cfg, rid).period_type
            IN  _year_of_fact(facts[i]) # << >> =>
                    (IsCandidate(facts[i], rid)
                        <=> (pt \in {None, Some("")}
                                \/ pt = Some(ClassOf(facts[i].period_key))))

\* a rule declaring "instant" has taken the end-only fact (empty first slot)
\* and left the duration fact and the start-only fact
C9_Witness ==
    /\ pc = "done"
    /\ cfg.metrics # << >>
    /\ cfg.metrics[1].period_type = Some("instant")
    /\ Len(facts) = 3
    /\ {facts[i].context_id : i \in 1..3} = {"D", "S", "E"}
    /\ \A i \in 1..3 : IsCandidate(facts[i], MetricId(1)) <=> facts[i].context_id = "E"

\* C10 as stated: a context without a period is indexed with both slots
\* empty, and the period-type predicate is false for a fact resolved against
\* it under "duration" and under "instant"
C10_NoPeriodNeverMatches ==
    \A i \in DOMAIN facts :
        facts[i].period_key = NoPeriodKey =>
            /\ ~_period_type_match(facts[i], Some("duration"))
            /\ ~_period_type_match(facts[i], Some("instant"))

\* C10 as amended: a context without a period is indexed with both slots
\* empty; a fact resolved against it is indexed with that key, the
\* period-type predicate is true for it under "duration" and false under
\* "instant", and having no year it is a candidate of no rule
C10_NoPeriodIsDuration ==
    /\ pc # "contexts" =>
          \A k \in DOMAIN doc.contexts :
              doc.contexts[k].period = None =>
                  /\ doc.contexts[k].id[1] \in DOMAIN contexts
                  /\ contexts[doc.contexts[k].id[1]].period_key = NoPeriodKey
    /\ pc \notin {"contexts", "facts"} =>
          \A k \in DOMAIN doc.elems :
              doc.elems[k].contextRef = Some("N") =>
                  \E i \in DOMAIN facts :
                      facts[i].context_id = "N" /\ facts[i].period_key = NoPeriodKey
    /\ \A i \in DOMAIN facts :
          facts[i].period_key = NoPeriodKey =>
              /\ _period_type_match(facts[i], Some("duration"))
              /\ ~_period_type_match(facts[i], Some("instant"))
              /\ \A k \in DOMAIN candidate_facts :
                    facts[i] \notin Range(candidate_facts[k].cands)

\* a rule declaring "duration" has run over a fact without a period and a
\* duration fact, and only the duration fact is placed
C10_Witness ==
    /\ pc = "done"
    /\ cfg.metrics # << >>
    /\ cfg.metrics[1].period_type = Some("duration")
    /\ Len(facts) = 2
    /\ facts[1].period_key = NoPeriodKey
    /\ facts[2].context_id = "D"
    /\ ValueAt(results, D4(2024), <<"m">>) = Some(facts[2].value)

(***************************************************************************)
(* SpecDims: _dims_match called on its own.  The fact carries any members  *)
(* v, w on any of the axes X, Xa1, Xa2, Y; the requirement is unset,       *)
(* empty, or on X alone or on X and Y; the aliases of X are unset, empty,  *)
(* or Xa1 and Xa2 in either order.                                         *)
(***************************************************************************)
DimAxes == {"X", "Xa1", "Xa2", "Y"}

DimMembers == {"v", "w"}

DimsU == UNION {[S -> DimMembers] : S \in SUBSET DimAxes}

DimFact(dims) ==
    [concept |-> A, value |-> RatInt(1), unit |-> "USD", decimals |-> Some("0"),
     period_key |-> <<Iso(2024, 1, 1), Iso(2024, 12, 31)>>, dims |-> dims,
     context_id |-> "c"]

RequiredU ==
    {None, Some(EmptyDict),
     Some([a \in {"X"} |-> Scalar("v")]),
     Some([a \in {"X"} |-> List(<<"v", "w">>)]),
     Some([a \in {"X"} |-> List(<<"w">>)]),
     Some([a \in {"X"} |-> List(<< >>)]),
     Some([a \in {"X", "Y"} |-> IF a = "X" THEN Scalar("v") ELSE Scalar("w")])}

AliasesU ==
    {None, Some(EmptyDict),
     Some([a \in {"X"} |-> <<"Xa1">>]),
     Some([a \in {"X"} |-> <<"Xa1", "Xa2">>]),
     Some([a \in {"X"} |-> <<"Xa2", "Xa1">>])}

InitDims ==
    /\ \E dims \in DimsU, r \in RequiredU, aa \in AliasesU :
          call = Some([f |-> DimFact(dims), required |-> r, axis_aliases |-> aa])
    /\ ret = None
    /\ pc = "call"
    /\ doc = [contexts |-> << >>, elems |-> << >>]
    /\ cfg = Config(<< >>, << >>)
    /\ contexts = EmptyDict
    /\ facts = << >>
    /\ fi = 0
    /\ candidate_facts = << >>
    /\ gi = 0
    /\ results = EmptyDict
    /\ placed = << >>

\* _dims_match(f, required, axis_aliases) runs and returns
CallDimsMatch ==
    /\ pc = "call"
    /\ ret' = Some(_dims_match(call[1].f, call[1].required, call[1].axis_aliases))
    /\ pc' = "returned"
    /\ UNCHANGED <<doc, cfg, contexts, facts, fi, candidate_facts, gi, results, placed, call>>

NextDims == CallDimsMatch

SpecDims == InitDims /\ [][NextDims]_vars

\* the members a requirement accepts on an axis
ExpectedSet(required, axis) ==
    IF required[axis].isList THEN Range(required[axis].v) ELSE {required[axis].v}

\* the keys consulted for an axis, in order: the axis, then its aliases
KeysOf(axis_aliases, axis) ==
    <<axis>> \o (IF axis_aliases # None /\ axis \in DOMAIN axis_aliases[1]
                 THEN axis_aliases[1][axis] ELSE << >>)

\* C4: with the requirement unset every fact matches; with the empty
\* requirement a fact matches exactly when it carries no dimension
C4_UnsetOrEmptyRequirement ==
    pc = "returned" =>
        /\ call[1].required = None => ret = Some(TRUE)
        /\ call[1].required = Some(EmptyDict) =>
              ret = Some(DOMAIN call[1].f.dims = {})

\* the empty requirement has rejected a fact that carries a dimension
C4_Witness ==
    /\ pc = "returned"
    /\ call[1].required = Some(EmptyDict)
    /\ DOMAIN call[1].f.dims # {}
    /\ ret = Some(FALSE)

\* C5: when the fact carries every axis of a non-empty requirement, it
\* matches exactly when on every required axis its member is the expected
\* value or in the expected list, and the axes the requirement does not
\* mention change nothing: the fact cut down to the required axes gets the
\* same answer
C5_SupersetMatch ==
    pc = "returned" =>
        LET f == call[1].f
            r == call[1].required
        IN  (r # None /\ DOMAIN r[1] # {} /\ DOMAIN r[1] \subseteq DOMAIN f.dims) =>
                /\ ret = Some(\A axis \in DOMAIN r[1] :
                                  f.dims[axis] \in ExpectedSet(r[1], axis))
                /\ ret = Some(_dims_match(
                                  [f EXCEPT !.dims = [a \in DOMAIN r[1] |-> f.dims[a]]],
                                  r, call[1].axis_aliases))

\* a fact carrying X = v and the unrelated Y = w has matched a requirement on
\* X = v alone
C5_Witness ==
    /\ pc = "returned"
    /\ call[1].required = Some([a \in {"X"} |-> Scalar("v")])
    /\ call[1].f.dims = [a \in {"X", "Y"} |-> IF a = "X" THEN "v" ELSE "w"]
    /\ ret = Some(TRUE)

\* C6 as stated: under a non-empty requirement a fact matches exactly when
\* for every required axis some key among the axis and its aliases is
\* carried by the fact with an expected member
C6_AnyAliasMatches ==
    pc = "returned" =>
        LET f == call[1].f
            r == call[1].required
        IN  (r # None /\ DOMAIN r[1] # {}) =>
                ret = Some(\A axis \in DOMAIN r[1] :
                              \E key \in Range(KeysOf(call[1].axis_aliases, axis)) :
                                  /\ key \in DOMAIN f.dims
                                  /\ f.dims[key] \in ExpectedSet(r[1], axis))

\* C6 as amended: under a non-empty requirement a fact matches exactly when
\* for every required axis the fact carries one of the keys (the axis, then
\* its aliases in configured order) and the first such key it carries has an
\* expected member
C6_FirstCarriedKeyDecides ==
    pc = "returned" =>
        LET f == call[1].f
            r == call[1].required
        IN  (r # None /\ DOMAIN r[1] # {}) =>
                ret = Some(\A axis \in DOMAIN r[1] :
                              LET keys == KeysOf(call[1].axis_aliases, axis)
                              IN  \E n \in DOMAIN keys :
                                      /\ keys[n] \in DOMAIN f.dims
                                      /\ \A m \in 1..(n - 1) : keys[m] \notin DOMAIN f.dims
                                      /\ f.dims[keys[n]] \in ExpectedSet(r[1], axis))

\* the fact carries an unexpected member under the first alias and the
\* expected one under the second, and is rejected
C6_Witness ==
    /\ pc = "returned"
    /\ call[1].required = Some([a \in {"X"} |-> Scalar("v")])
    /\ call[1].axis_aliases = Some([a \in {"X"} |-> <<"Xa1", "Xa2">>])
    /\ call[1].f.dims = [a \in {"Xa1", "Xa2"} |-> IF a = "Xa1" THEN "w" ELSE "v"]
    /\ ret = Some(FALSE)

(***************************************************************************)
(* SpecUnit: unit whitelists.  Facts of one concept in three periods of    *)
(* one year, in USD or in shares; one sum rule, metric or segment, whose   *)
(* whitelist is unset, empty, or one or two units.                         *)
(***************************************************************************)
UnitContexts ==
    <<DurationCtx("Q1", Iso(2024, 1, 1), Iso(2024, 3, 31), << >>),
      DurationCtx("H1", Iso(2024, 1, 1), Iso(2024, 6, 30), << >>),
      DurationCtx("FY", Iso(2024, 1, 1), Iso(2024, 12, 31), << >>)>>

UnitDocs == Documents(UnitContexts, {"A"} \X {"Q1", "H1", "FY"} \X {"USD", "shares"})

UnitLists == {None, Some(<< >>), Some(<<"USD">>), Some(<<"EUR">>), Some(<<"USD", "shares">>)}

UnitConfigs ==
    {Config(<<[Metric("m", <<A>>, SUM) EXCEPT !.units = u]>>, << >>) : u \in UnitLists}
    \cup {Config(<< >>, <<[Segment("s", A, SUM) EXCEPT !.units = u]>>) : u \in UnitLists}

InitUnit == \E d \in UnitDocs, c \in UnitConfigs : Start(d, c)

SpecUnit == InitUnit /\ [][Next]_vars

\* C11 as stated: a candidate of a rule that declares a unit whitelist has
\* its unit in the whitelist, and a rule with the whitelist unset takes the
\* facts of any unit
C11_UnitWhitelist ==
    /\ \A k \in DOMAIN candidate_facts :
          LET units == RuleOf(cfg, candidate_facts[k].rid).units
          IN  units # None =>
                  \A n \in DOMAIN candidate_facts[k].cands :
                      candidate_facts[k].cands[n].unit \in Range(units[1])
    /\ pc \in {"aggregate", "done"} =>
          \A rid \in RuleIds(cfg), i \in DOMAIN facts :
              RuleOf(cfg, rid).units = None => IsCandidate(facts[i], rid)

\* C11 as amended: once every fact is collected, a fact is a candidate of a
\* rule exactly when the rule's whitelist is unset or empty, or holds the
\* fact's unit
C11_NonEmptyUnitWhitelist ==
    pc \in {"aggregate", "done"} =>
        \A rid \in RuleIds(cfg), i \in DOMAIN facts :
            LET units == RuleOf(cfg, rid).units
            IN  IsCandidate(facts[i], rid)
                    <=> (units \in {None, Some(<< >>)}
                            \/ facts[i].unit \in Range(units[1]))

\* under the whitelist [USD, shares] a USD fact and a shares fact are both
\* taken; under [USD] alone the rule would have left the second
C11_Witness ==
    /\ pc = "done"
    /\ cfg.metrics # << >>
    /\ cfg.metrics[1].units = Some(<<"USD", "shares">>)
    /\ Len(facts) = 2
    /\ facts[1].unit = "USD" /\ facts[2].unit = "shares"
    /\ \A i \in 1..2 : IsCandidate(facts[i], MetricId(1))

(***************************************************************************)
(* SpecPlace: where values go.  Facts of A and B in 2023 and 2024; a       *)
(* metric on A named m, segments or balance_sheet, flat or under a         *)
(* balance-sheet category, for every year or for 2023 alone; and on B      *)
(* either a segment rule or a balance-sheet metric.                        *)
(***************************************************************************)
PlaceContexts ==
    <<DurationCtx("Y23", Iso(2023, 1, 1), Iso(2023, 12, 31), << >>),
      InstantCtx("Y24", Iso(2024, 12, 31), << >>)>>

PlaceDocs == Documents(PlaceContexts, {"A", "B"} \X {"Y23", "Y24"} \X {"USD"})

PlaceNames == {"m", "segments", "balance_sheet"}

PlaceCategories ==
    {None, Some("assets"), Some("balance_sheet.assets"), Some("balance_sheet.assets.current")}

PlaceConfigs ==
    {Config(<<[Metric(n, <<A>>, st) EXCEPT !.category = cat, !.years = yr]>>
                \o (IF second = "metric"
                    THEN <<[Metric("Assets", <<B>>, LATEST_IN_YEAR)
                               EXCEPT !.category = Some("balance_sheet.assets")]>>
                    ELSE << >>),
            IF second = "segment" THEN <<Segment("s", B, SUM)>> ELSE << >>) :
        n \in PlaceNames, cat \in PlaceCategories, st \in {SUM, PICK_FIRST},
        yr \in {None, Some(D4(2023))}, second \in {"metric", "segment"}}

InitPlace == \E d \in PlaceDocs, c \in PlaceConfigs : Start(d, c)

SpecPlace == InitPlace /\ [][Next]_vars

\* the paths of d that end in a value
RECURSIVE LeafPaths(_)
LeafPaths(d) ==
    {<<k>> : k \in {x \in DOMAIN d : ~IsDict(d[x])}}
    \cup UNION {{<<k>> \o p : p \in LeafPaths(d[k].dict)} :
                    k \in {x \in DOMAIN d : IsDict(d[x])}}

\* the entry at the path is a value
HasValueAt(res, year, path) ==
    ValueAt(res, year, path) # None /\ ~IsDict(ValueAt(res, year, path)[1])

\* C12: a value is written for (year, rule), and the result holds a value
\* at the rule's placement path under the year, only if some fact of the
\* index satisfies every matching predicate for that (year, rule); a year
\* for which no rule has such a fact is no key of the result
C12_NoPlaceholder ==
    pc # "error" =>
        /\ \A k \in DOMAIN placed :
              Qualifying(cfg, facts, placed[k].year, RuleOf(cfg, placed[k].rid)) # {}
        /\ \A rid \in RuleIds(cfg), year \in list_years(facts) \cup DOMAIN results :
              HasValueAt(results, year, PathOf(RuleOf(cfg, rid))) =>
                  Qualifying(cfg, facts, year, RuleOf(cfg, rid)) # {}
        /\ \A year \in DOMAIN results :
              /\ LeafPaths(results[year]) # {}
              /\ \E rid \in RuleIds(cfg) :
                    Qualifying(cfg, facts, year, RuleOf(cfg, rid)) # {}

\* the rule m applies to 2023 only and the index holds A for 2024 and B for
\* 2023: the run ends with the segment value under 2023 and no key for m
C12_Witness ==
    /\ pc = "done"
    /\ cfg.metrics[1].name = "m"
    /\ cfg.metrics[1].years = Some(D4(2023))
    /\ cfg.segments # << >>
    /\ \E i \in DOMAIN facts : facts[i].concept = A /\ _year_of_fact(facts[i]) = D4(2024)
    /\ ~ \E i \in DOMAIN facts : facts[i].concept = A /\ _year_of_fact(facts[i]) = D4(2023)
    /\ DOMAIN results = {D4(2023)}
    /\ DOMAIN results[D4(2023)] = {"segments"}

\* the category text after the first dot
SuffixOf(category) ==
    CASE category = "balance_sheet.assets" -> "assets"
      [] category = "balance_sheet.assets.current" -> "assets.current"

\* the placement path the rule's value belongs at
DeclaredPath(rule) ==
    IF rule.kind = "segment" THEN <<"segments", rule.name>>
    ELSE IF rule.category \in {Some("balance_sheet.assets"), Some("balance_sheet.assets.current")}
    THEN <<"balance_sheet", SuffixOf(rule.category[1]), rule.name>>
    ELSE <<rule.name>>

\* C13: every value computed for a rule is written, and stands in the
\* result, at results[year]["segments"][name] for a segment rule, at
\* results[year]["balance_sheet"][category text after the first dot][name]
\* for a metric rule of a balance_sheet. category, and at results[year][name]
\* for any other metric rule; and the result holds no value anywhere else
C13_ResultPlacement ==
    /\ pc # "error"
    /\ \A k \in 1..gi :
          LET g == candidate_facts[k]
          IN  HasValueAt(results, g.year, DeclaredPath(RuleOf(cfg, g.rid)))
    /\ \A year \in DOMAIN results :
          \A p \in LeafPaths(results[year]) :
              \E k \in 1..gi :
                  /\ candidate_facts[k].year = year
                  /\ DeclaredPath(RuleOf(cfg, candidate_facts[k].rid)) = p

(***************************************************************************)
(* SpecIndex: building the index.  Documents of up to MaxElems elements,   *)
(* each of one of the kinds below: well-formed fact elements (two of them  *)
(* on contexts that differ in id only), elements that lack a prefix, a     *)
(* context reference, text, a number or a known context, a structural      *)
(* element, and a fact element whose scale is no integer.  The i-th        *)
(* element carries a text that names its position.                         *)
(***************************************************************************)
IndexContextsIn ==
    <<DurationCtx("Q1", Iso(2024, 1, 1), Iso(2024, 3, 31), << >>),
      DurationCtx("Q1b", Iso(2024, 1, 1), Iso(2024, 3, 31), << >>),
      DurationCtx("H1", Iso(2024, 1, 1), Iso(2024, 6, 30), <<Member("Axis", "SegA")>>)>>

ElemKinds ==
    {"good", "dup", "other", "lowerref", "noprefix", "structural", "noref", "blank",
     "nonnum", "unknown", "scalebad"}

\* the element of a kind at position i
ElemOf(kind, i) ==
    CASE kind = "good" -> FactElem("A", "Q1", "USD", TextAt(i))
      [] kind = "dup" ->
            [FactElem("A", "Q1b", "shares", TextAt(i)) EXCEPT !.decimals = Some("2")]
      [] kind = "other" -> FactElem("B", "H1", "USD", <<i, Comma, 0, 0, 0>>)
      [] kind = "lowerref" ->
            [FactElem("A", "H1", "USD", TextAt(i))
                EXCEPT !.contextRef = None, !.contextref = Some("H1"),
                       !.unitRef = None, !.decimals = None]
      [] kind = "noprefix" -> [FactElem("A", "Q1", "USD", TextAt(i)) EXCEPT !.prefix = None]
      [] kind = "structural" ->
            [FactElem("measure", "Q1", "USD", TextAt(i)) EXCEPT !.prefix = Some("xbrli")]
      [] kind = "noref" -> [FactElem("A", "Q1", "USD", TextAt(i)) EXCEPT !.contextRef = None]
      [] kind = "blank" -> FactElem("A", "Q1", "USD", <<Space>>)
      [] kind = "nonnum" -> FactElem("A", "Q1", "USD", <<LetterX, i>>)
      [] kind = "unknown" -> FactElem("A", "ZZ", "USD", TextAt(i))
      [] kind = "scale3" -> [FactElem("B", "Q1", "USD", <<5>>) EXCEPT !.scale = Some(<<3>>)]
      [] kind = "scalefrac" ->
            [FactElem("B", "H1", "USD", <<i, Dot, 5>>) EXCEPT !.scale = Some(<<Plus, 2>>)]
      [] kind = "scale0" -> [FactElem("B", "Q1", "USD", <<i>>) EXCEPT !.scale = Some(<<0>>)]
      [] kind = "scaleneg" ->
            [FactElem("B", "Q1", "USD", <<i>>) EXCEPT !.scale = Some(<<Dash, 2>>)]
      [] kind = "scaleempty" ->
            [FactElem("B", "Q1", "USD", <<i>>) EXCEPT !.scale = Some(<< >>)]
      [] kind = "scalebad" ->
            [FactElem("B", "Q1", "USD", <<i>>) EXCEPT !.scale = Some(<<LetterX>>)]

IndexDocs ==
    {[contexts |-> IndexContextsIn, elems |-> [i \in DOMAIN ks |-> ElemOf(ks[i], i)]] :
        ks \in SeqsUpTo(ElemKinds, MaxElems)}

IndexConfig == Config(<<Metric("m", <<A, B>>, SUM)>>, << >>)

InitIndex == \E d \in IndexDocs : Start(d, IndexConfig)

SpecIndex == InitIndex /\ [][Next]_vars

\* the index is built: XBRLIndex(xml_text) has returned
IndexBuilt == pc \in {"collect", "aggregate", "done"}

\* the fact the element alone gives under the indexed contexts, if any
FactsOfElem(elem) == IndexElement(<< >>, elem, contexts).facts

\* the positions of the elements that resolve to the triple of f
SameTriple(f) ==
    {k \in DOMAIN doc.elems :
        /\ FactsOfElem(doc.elems[k]) # << >>
        /\ FactKey(FactsOfElem(doc.elems[k])[1]) = FactKey(f)}

Max(S) == CHOOSE x \in S : \A y \in S : y <= x

\* C14: a built index holds no two facts of one (concept, period key,
\* dimensions); every element that resolves to a triple has a fact of that
\* triple in the index; and each fact of the index is the one built from the
\* last element of the document that resolves to its triple
C14_LastWriteWins ==
    IndexBuilt =>
        /\ \A i \in DOMAIN facts, j \in DOMAIN facts :
              FactKey(facts[i]) = FactKey(facts[j]) => i = j
        /\ \A k \in DOMAIN doc.elems :
              FactsOfElem(doc.elems[k]) # << >> =>
                  \E i \in DOMAIN facts : k \in SameTriple(facts[i])
        /\ \A i \in DOMAIN facts :
              /\ SameTriple(facts[i]) # {}
              /\ facts[i] = FactsOfElem(doc.elems[Max(SameTriple(facts[i]))])[1]

\* two elements on contexts Q1 and Q1b resolve to one triple, and the index
\* holds the single fact of the second: its value, unit, decimals, context
C14_Witness ==
    /\ IndexBuilt
    /\ Len(doc.elems) = 2
    /\ doc.elems[1].contextRef = Some("Q1") /\ doc.elems[2].contextRef = Some("Q1b")
    /\ Len(facts) = 1
    /\ facts[1].context_id = "Q1b"
    /\ facts[1].unit = "shares"
    /\ facts[1].decimals = Some("2")
    /\ facts[1].value = RatInt(20)

\* the context reference of an element
CtxRefOf(elem) == IF elem.contextRef # None THEN elem.contextRef ELSE elem.contextref

\* the element has a namespace prefix, a context reference, non-empty
\* trimmed text and a parseable number, and its context is in the map
WellFormed(elem) ==
    /\ elem.prefix # None /\ elem.prefix[1] # ""
    /\ CtxRefOf(elem) # None
    /\ Strip(elem.text) # << >>
    /\ ParseFloat(Remove(Strip(elem.text), Comma)) # None
    /\ CtxRefOf(elem)[1] \in DOMAIN contexts

\* the fact came from the element: its concept, context, period key and
\* dimensions are the element's
CameFrom(f, elem) ==
    /\ WellFormed(elem)
    /\ f.concept = elem.prefix[1] \o ":" \o elem.name
    /\ f.context_id = CtxRefOf(elem)[1]
    /\ f.period_key = contexts[f.context_id].period_key
    /\ f.dims = contexts[f.context_id].dims

\* C15: every fact of a built index came from an element with a prefix, a
\* context reference, non-empty trimmed text, a parseable number and a known
\* context, and has the period key and dimensions of that context; an
\* element without a context reference, with empty or non-numeric text or
\* with an unknown context gives no fact (no fact carries the number its
\* position names), and the index holds no more facts than the document has
\* well-formed elements
C15_IndexResultGuarantee ==
    IndexBuilt =>
        /\ \A i \in DOMAIN facts : \E k \in DOMAIN doc.elems : CameFrom(facts[i], doc.elems[k])
        /\ \A k \in DOMAIN doc.elems :
              ~WellFormed(doc.elems[k]) =>
                  /\ FactsOfElem(doc.elems[k]) = << >>
                  /\ \A i \in DOMAIN facts : facts[i].value # RatInt(10 * k)
        /\ Len(facts) <= Cardinality({k \in DOMAIN doc.elems : WellFormed(doc.elems[k])})

\* a fact element without a context reference, one with an unknown context
\* and a well-formed one: the index holds the single fact of the third
C15_Witness ==
    /\ IndexBuilt
    /\ Len(doc.elems) = 3
    /\ CtxRefOf(doc.elems[1]) = None
    /\ CtxRefOf(doc.elems[2]) = Some("ZZ")
    /\ WellFormed(doc.elems[3])
    /\ Len(facts) = 1
    /\ CameFrom(facts[1], doc.elems[3])
    /\ facts[1].value = RatInt(30)

\* index construction raised: the run ended before any fact was collected
IndexFailed == pc = "error" /\ fi = 0

\* C16: index construction completes for every document, and an element
\* with a missing attribute, an unparseable number, an unparseable scale or
\* an unknown context is skipped alone: every element that gives a fact on
\* its own has its triple in the index
C16_AnomaliesAbsorbed ==
    /\ ~IndexFailed
    /\ IndexBuilt =>
          \A k \in DOMAIN doc.elems :
              FactsOfElem(doc.elems[k]) # << >> =>
                  \E i \in DOMAIN facts :
                      FactKey(facts[i]) = FactKey(FactsOfElem(doc.elems[k])[1])

(***************************************************************************)
(* SpecScale: the scale attribute.  Fact elements with no scale, with      *)
(* scale "3" on the text "5", "0", "-2", "+2" on a decimal text, the empty *)
(* scale and a scale that is no integer.                                   *)
(***************************************************************************)
ScaleKinds ==
    {"good", "other", "scale3", "scalefrac", "scale0", "scaleneg", "scaleempty", "scalebad"}

ScaleDocs ==
    {[contexts |-> IndexContextsIn, elems |-> [i \in DOMAIN ks |-> ElemOf(ks[i], i)]] :
        ks \in SeqsUpTo(ScaleKinds, MaxElems)}

InitScale == \E d \in ScaleDocs : Start(d, IndexConfig)

SpecScale == InitScale /\ [][Next]_vars

\* the power of ten a scale text names, as [num, den]
TenTo(scale) ==
    CASE scale = <<3>> -> [num |-> 1000, den |-> 1]
      [] scale = <<Plus, 2>> -> [num |-> 100, den |-> 1]
      [] scale = <<Dash, 2>> -> [num |-> 1, den |-> 100]

\* a = v * p
IsProduct(a, v, p) == a.num * v.den * p.den = v.num * p.num * a.den

\* the number the text of the element parses to
ParsedText(elem) == ParseFloat(Remove(Strip(elem.text), Comma))[1]

\* C17: in a built index the value of a fact is v * 10^s when the element
\* it was built from has text value v and a scale s that is present and not
\* zero, and v itself when the scale is absent, "0" or empty
C17_ScaleApplication ==
    IndexBuilt =>
        \A i \in DOMAIN facts :
            LET elem == doc.elems[Max(SameTriple(facts[i]))]
            IN  IF elem.scale \in {None, Some(<<0>>), Some(<< >>)}
                THEN facts[i].value = ParsedText(elem)
                ELSE IsProduct(facts[i].value, ParsedText(elem), TenTo(elem.scale[1]))

\* scale "3" on the text "5" is indexed as 5000
C17_Witness ==
    /\ IndexBuilt
    /\ \E k \in DOMAIN doc.elems :
          /\ doc.elems[k].scale = Some(<<3>>)
          /\ doc.elems[k].text = <<5>>
          /\ \E i \in DOMAIN facts :
                /\ Max(SameTriple(facts[i])) = k
                /\ facts[i].value = RatInt(5000)

(***************************************************************************)
(* SpecReport: extract_all, then _report_missing_data on its result.       *)
(* Facts of A and B in 2023 and 2024; a flat metric on A named m or        *)
(* segments with a segment rule on B, or two balance-sheet metrics of one  *)
(* category or of two; target years drawn from 2023..2025, in any order    *)
(* and with repeats; the report may be asked for again.                    *)
(***************************************************************************)
ReportConfigs ==
    {Config(<<[Metric(n, <<A>>, SUM) EXCEPT !.years = yr]>>,
            <<[Segment("s", B, SUM) EXCEPT !.years = yr2]>>) :
        n \in {"m", "segments"}, yr \in {None, Some(D4(2023))},
        yr2 \in {None, Some(D4(2023))}}
    \cup {Config(<<[Metric("Assets", <<A>>, LATEST_IN_YEAR)
                       EXCEPT !.category = Some("balance_sheet.assets")],
                   [Metric("Cash", <<B>>, LATEST_IN_YEAR)
                       EXCEPT !.category = Some(cat), !.years = yr]>>, << >>) :
            cat \in {"balance_sheet.assets", "balance_sheet.assets.current"},
            yr \in {None, Some(D4(2023))}}

TargetYears == SeqsUpTo({2023, 2024, 2025}, 2)

InitReport == \E d \in PlaceDocs, c \in ReportConfigs : Start(d, c)

\* _report_missing_data(results, cfg, target_years) on the result returned
ReportMissing ==
    /\ pc \in {"done", "reported"}
    /\ \E ty \in TargetYears :
          \E r \in {_report_missing_data(results, cfg, ty)} :
              /\ call' = Some([target_years |-> ty])
              /\ ret' = Some(r.missing)
              /\ results' = ResultsAfterReport(results, cfg, ty)
              /\ pc' = IF r.ok THEN "reported" ELSE "report_error"
    /\ UNCHANGED <<doc, cfg, contexts, facts, fi, candidate_facts, gi, placed>>

NextReport == Next \/ ReportMissing

SpecReport == InitReport /\ [][NextReport]_vars

\* the rules of the configuration, metrics first
RulesOf(c) == {RuleOf(c, rid) : rid \in RuleIds(c)}

\* the years of a list are strictly ascending
Ascending(ys) == \A i \in DOMAIN ys, j \in DOMAIN ys : i < j => ys[i] < ys[j]

\* C18: a metric name outside the balance sheet (under "metrics") or a
\* segment name (under "segments") is reported with year y exactly when y is
\* a target year, a rule of that name applies to y, and the result holds no
\* value at the rule's placement path for y; every list of years is
\* ascending without repeats, and no reported name has an empty list
C18_MissingMetricsAndSegments ==
    pc = "reported" =>
        \A section \in {"metrics", "segments"} :
            /\ \A n \in DOMAIN ret[1][section] :
                  ret[1][section][n] # << >> /\ Ascending(ret[1][section][n])
            /\ \A n \in {"m", "s", "segments", "Assets", "Cash"}, y \in 2022..2026 :
                  (n \in DOMAIN ret[1][section] /\ y \in Range(ret[1][section][n]))
                      <=> /\ y \in Range(call[1].target_years)
                          /\ \E rule \in RulesOf(cfg) :
                                /\ rule.name = n
                                /\ rule.kind = (IF section = "segments" THEN "segment"
                                                ELSE "metric")
                                /\ Len(DeclaredPath(rule)) # 3
                                /\ InDeclaredRange(y, rule.years)
                                /\ ~HasValueAt(results, D4(y), DeclaredPath(rule))

\* the result holds a value under the balance-sheet category for the year
CategoryHasValue(res, year, cat) ==
    LET e == ValueAt(res, year, <<"balance_sheet", cat>>)
    IN  e # None /\ IsDict(e[1]) /\ DOMAIN e[1].dict # {}

\* C19: a balance-sheet category is reported for a year only if the year
\* is a target year, some rule of the category applies to it, and the result
\* holds no value for the category in that year
C19_MissingBalanceSheet ==
    pc = "reported" =>
        \A cat \in DOMAIN ret[1]["balance_sheet"] :
            \A k \in DOMAIN ret[1]["balance_sheet"][cat] :
                LET y == ret[1]["balance_sheet"][cat][k]
                IN  /\ y \in Range(call[1].target_years)
                    /\ \E rule \in RulesOf(cfg) :
                          /\ Len(DeclaredPath(rule)) = 3
                          /\ DeclaredPath(rule)[2] = cat
                          /\ InDeclaredRange(y, rule.years)
                    /\ ~CategoryHasValue(results, D4(y), cat)

(***************************************************************************)
(* SpecFrame: the same runs, where extract_all may be called a second time *)
(* on the same index and configuration before the report is asked for.     *)
(***************************************************************************)
\* extract_all(index, cfg) is called again; the result of the first call is
\* kept aside
ExtractAgain ==
    /\ pc = "done"
    /\ call = None
    /\ call' = Some([previous |-> results])
    /\ fi' = 0
    /\ candidate_facts' = << >>
    /\ gi' = 0
    /\ results' = EmptyDict
    /\ placed' = << >>
    /\ pc' = IF facts = << >> THEN "done" ELSE "collect"
    /\ UNCHANGED <<doc, cfg, contexts, facts, ret>>

NextFrame == Next \/ ReportMissing \/ ExtractAgain

SpecFrame == InitReport /\ [][NextFrame]_vars

RECURSIVE _merge(_, _)

\* "for k, v in b.items()" of _merge over the keys ks still to visit
RECURSIVE MergeItems(_, _, _, _)
MergeItems(out, a, b, ks) ==
    IF ks = {} THEN out
    ELSE LET k == CHOOSE x \in ks : TRUE
         IN  MergeItems(
                 Put(out, k,
                     IF IsDict(b[k]) /\ k \in DOMAIN a /\ IsDict(a[k])
                     THEN [dict |-> _merge(a[k].dict, b[k].dict)]
                     ELSE b[k]),
                 a, b, ks \ {k})

\* mutant of _merge: out = dict(a); out.update(b)
ShallowMerge(a, b) ==
    [k \in DOMAIN a \cup DOMAIN b |-> IF k \in DOMAIN b THEN b[k] ELSE a[k]]

\* _merge(a, b): out = dict(a), then the loop over b.items()
_merge(a, b) == MergeItems(a, a, b, DOMAIN b)

\* every state variable of the extraction run at rest
RunIdle ==
    /\ doc = [contexts |-> << >>, elems |-> << >>]
    /\ cfg = Config(<< >>, << >>)
    /\ contexts = EmptyDict
    /\ facts = << >>
    /\ fi = 0
    /\ candidate_facts = << >>
    /\ gi = 0
    /\ results = EmptyDict
    /\ placed = << >>

(***************************************************************************)
(* SpecMerge: _merge(a, b) on mappings over the keys p and q, nested to    *)
(* depth two; the leaves of a and of b differ, so that the origin of every *)
(* value of the result is visible.                                         *)
(***************************************************************************)
MergeKeys == {"p", "q"}

DictsOver(values) ==
    UNION {[ks -> values] : ks \in SUBSET MergeKeys}

LeavesOf(tag) == {[scalar |-> tag], [list |-> <<tag>>]}

MergeDicts(tag) ==
    DictsOver(LeavesOf(tag) \cup {[dict |-> d] : d \in DictsOver(LeavesOf(tag))})

InitMerge ==
    /\ \E a \in MergeDicts("a"), b \in MergeDicts("b") : call = Some([a |-> a, b |-> b])
    /\ ret = None
    /\ pc = "call"
    /\ RunIdle

\* _merge(default_cfg, comp_cfg) runs and returns
CallMerge ==
    /\ pc = "call"
    /\ ret' = Some(_merge(call[1].a, call[1].b))
    /\ pc' = "returned"
    /\ UNCHANGED <<doc, cfg, contexts, facts, fi, candidate_facts, gi, results, placed, call>>

NextMerge == CallMerge

SpecMerge == InitMerge /\ [][NextMerge]_vars

\* the deep merge of two mappings, stated key by key
RECURSIVE DeepMerge(_, _)
DeepMerge(a, b) ==
    [k \in DOMAIN a \cup DOMAIN b |->
        IF k \notin DOMAIN b THEN a[k]
        ELSE IF k \in DOMAIN a /\ IsDict(a[k]) /\ IsDict(b[k])
             THEN [dict |-> DeepMerge(a[k].dict, b[k].dict)]
             ELSE b[k]]

\* C21: _merge(a, b) has exactly the keys of a and b together; a key only in
\* a keeps a's value; a key of b whose values in a and in b are both
\* mappings gets the recursive merge of the two; every other key of b gets
\* b's value wholesale
C21_DeepMerge ==
    pc = "returned" =>
        LET a == call[1].a
            b == call[1].b
            out == ret[1]
        IN  /\ DOMAIN out = DOMAIN a \cup DOMAIN b
            /\ \A k \in DOMAIN out :
                  /\ k \notin DOMAIN b => out[k] = a[k]
                  /\ k \in DOMAIN b =>
                        IF k \in DOMAIN a /\ IsDict(a[k]) /\ IsDict(b[k])
                        THEN /\ IsDict(out[k])
                             /\ out[k].dict = DeepMerge(a[k].dict, b[k].dict)
                        ELSE out[k] = b[k]

\* C21 witness: a merge has returned where, under one shared key, two
\* mappings with different keys were merged into a mapping holding both, and
\* under the other shared key a list of b replaced a mapping of a
C21_Witness ==
    /\ pc = "returned"
    /\ LET a == call[1].a
           b == call[1].b
           out == ret[1]
       IN  /\ DOMAIN a = MergeKeys
           /\ DOMAIN b = MergeKeys
           /\ a["p"] = [dict |-> [k \in {"p"} |-> [scalar |-> "a"]]]
           /\ b["p"] = [dict |-> [k \in {"q"} |-> [scalar |-> "b"]]]
           /\ out["p"].dict = [k \in {"p", "q"} |->
                                  IF k = "p" THEN [scalar |-> "a"] ELSE [scalar |-> "b"]]
           /\ IsDict(a["q"])
           /\ b["q"] = [list |-> <<"b">>]
           /\ out["q"] = [list |-> <<"b">>]

(***************************************************************************)
(* _parse_metrics(merged).  merged is a mapping; concept_aliases and       *)
(* balance_sheet_concepts are held in insertion order as sequences of      *)
(* [name, aliases] and [cat, config]; an entry of metrics is a mapping     *)
(* from field name to value.                                               *)
(***************************************************************************)
\* m.get(k) as an Optional
GetOpt(m, k) == IF k \in DOMAIN m THEN Some(m[k]) ELSE None

\* mutant of NameSupplied: the name is never taken as supplied
NeverSupplied(metrics_conf, name) == FALSE

\* any(m.get("name") == name for m in metrics_conf)
NameSupplied(metrics_conf, name) ==
    \E i \in DOMAIN metrics_conf :
        "name" \in DOMAIN metrics_conf[i] /\ metrics_conf[i]["name"] = name

\* the entry appended for a concept_aliases item
ConceptEntry(name, aliases) ==
    ("name" :> name) @@ ("aliases" :> aliases) @@ ("strategy" :> PICK_FIRST)

\* the entry appended for an alias of a balance-sheet category; years is
\* set only when truthy
BsEntry(cat, alias, years) ==
    LET rule == ("name" :> alias) @@ ("aliases" :> <<alias>>)
                @@ ("strategy" :> LATEST_IN_YEAR) @@ ("category" :> BsPrefix \o cat)
    IN  IF TruthySeq(years) THEN rule @@ ("years" :> years[1]) ELSE rule

\* "for name, aliases in concept_aliases.items()"
RECURSIVE ConceptEntries(_, _)
ConceptEntries(metrics_conf, items) ==
    IF items = << >> THEN metrics_conf
    ELSE ConceptEntries(
             IF NameSupplied(metrics_conf, items[1].name) THEN metrics_conf
             ELSE Append(metrics_conf, ConceptEntry(items[1].name, items[1].aliases)),
             Tail(items))

\* the entries one balance_sheet_concepts item appends
BsConfigEntries(cat, config) ==
    IF "list" \in DOMAIN config
    THEN [i \in DOMAIN config.list |-> BsEntry(cat, config.list[i], None)]
    ELSE IF IsDict(config)
    THEN LET aliases == Get(config.dict, "aliases", << >>)
             years == GetOpt(config.dict, "years")
         IN  [i \in DOMAIN aliases |-> BsEntry(cat, aliases[i], years)]
    ELSE << >>

\* "for cat, config in bs_conf.items()"
RECURSIVE BsEntries(_, _)
BsEntries(metrics_conf, items) ==
    IF items = << >> THEN metrics_conf
    ELSE BsEntries(metrics_conf \o BsConfigEntries(items[1].cat, items[1].config),
                   Tail(items))

\* MetricRule(name=m["name"], aliases=m["aliases"], ...)
RuleOfEntry(m) ==
    [kind |-> "metric", name |-> m["name"], aliases |-> m["aliases"],
     strategy |-> Get(m, "strategy", PICK_FIRST),
     required_dims |-> GetOpt(m, "required_dims"), units |-> GetOpt(m, "units"),
     period_type |-> GetOpt(m, "period_type"), category |-> GetOpt(m, "category"),
     filter_for_consolidated |-> Get(m, "filter_for_consolidated", FALSE),
     years |-> GetOpt(m, "years")]

\* _parse_metrics(merged): the list of MetricRule
_parse_metrics(merged) ==
    LET concept_aliases == Get(merged, "concept_aliases", << >>)
        bs_conf == Get(merged, "balance_sheet_concepts", << >>)
        metrics_conf == BsEntries(ConceptEntries(Get(merged, "metrics", << >>),
                                                 concept_aliases),
                                  bs_conf)
    IN  [i \in DOMAIN metrics_conf |-> RuleOfEntry(metrics_conf[i])]

(***************************************************************************)
(* SpecParse: _parse_metrics on legacy-shape mappings: metrics absent,     *)
(* empty or with one entry named revenues; up to two concept_aliases       *)
(* entries named revenues and income; up to two balance-sheet categories   *)
(* in list form (with an alias listed twice), dict form (with and without  *)
(* aliases and years) or a bare string.                                    *)
(***************************************************************************)
ParseMetricsU ==
    {<< >>,
     <<("name" :> "revenues") @@ ("aliases" :> <<B>>) @@ ("strategy" :> SUM)>>,
     <<("name" :> "revenues") @@ ("aliases" :> <<B>>)>>}

ParseAliasLists == {<<A>>, <<A, B>>}

ParseConceptU ==
    {<< >>}
    \cup {<<[name |-> n, aliases |-> al]>> :
            n \in {"revenues", "income"}, al \in ParseAliasLists}
    \cup {<<[name |-> "revenues", aliases |-> al], [name |-> "income", aliases |-> <<B>>]>> :
            al \in ParseAliasLists}
    \cup {<<[name |-> "income", aliases |-> al], [name |-> "revenues", aliases |-> <<B>>]>> :
            al \in ParseAliasLists}

ParseBsConfigs ==
    {[list |-> << >>], [list |-> <<A>>], [list |-> <<A, B>>], [list |-> <<A, A>>],
     [scalar |-> A],
     [dict |-> EmptyDict],
     [dict |-> ("aliases" :> <<A>>)],
     [dict |-> ("aliases" :> <<A, B>>) @@ ("years" :> D4(2023))],
     [dict |-> ("aliases" :> <<A>>) @@ ("years" :> << >>)]}

ParseBsU ==
    {<< >>}
    \cup {<<[cat |-> "assets", config |-> c]>> : c \in ParseBsConfigs}
    \cup {<<[cat |-> "liabilities", config |-> c], [cat |-> "assets", config |-> c2]>> :
            c \in ParseBsConfigs, c2 \in ParseBsConfigs}

\* the mapping with the keys whose flag is set
MergedOf(m, hasM, ca, hasCa, bs, hasBs) ==
    [k \in (IF hasM THEN {"metrics"} ELSE {})
           \cup (IF hasCa THEN {"concept_aliases"} ELSE {})
           \cup (IF hasBs THEN {"balance_sheet_concepts"} ELSE {}) |->
        IF k = "metrics" THEN m ELSE IF k = "concept_aliases" THEN ca ELSE bs]

ParseInputs ==
    {MergedOf(m, hasM, ca, hasCa, bs, hasBs) :
        m \in ParseMetricsU, hasM \in BOOLEAN, ca \in ParseConceptU,
        hasCa \in BOOLEAN, bs \in ParseBsU, hasBs \in BOOLEAN}

InitParse ==
    /\ \E merged \in ParseInputs : call = Some([merged |-> merged])
    /\ ret = None
    /\ pc = "call"
    /\ RunIdle

\* _parse_metrics(merged) runs and returns
CallParseMetrics ==
    /\ pc = "call"
    /\ ret' = Some(_parse_metrics(call[1].merged))
    /\ pc' = "returned"
    /\ UNCHANGED <<doc, cfg, contexts, facts, fi, candidate_facts, gi, results, placed, call>>

NextParse == CallParseMetrics

SpecParse == InitParse /\ [][NextParse]_vars

\* the aliases listed under a balance-sheet config in list or dict form, and
\* the years its rules carry
ListedAliases(config) ==
    IF "list" \in DOMAIN config THEN config.list
    ELSE IF IsDict(config) /\ "aliases" \in DOMAIN config.dict THEN config.dict["aliases"]
    ELSE << >>

ListedYears(config) ==
    IF IsDict(config) /\ "years" \in DOMAIN config.dict /\ config.dict["years"] # << >>
    THEN Some(config.dict["years"])
    ELSE None

\* C22: every concept_aliases entry whose name is not a name in metrics
\* yields one pick_first rule with that name and those aliases; an entry
\* whose name is in metrics adds no rule; every alias listed under a
\* balance-sheet category yields, per listing, one latest_in_year rule whose
\* name and single alias are that alias and whose category is
\* balance_sheet.<cat>; nothing else is added to the rules of metrics
C22_LegacyRuleParsing ==
    pc = "returned" =>
        LET merged == call[1].merged
            out == ret[1]
            metrics == Get(merged, "metrics", << >>)
            ca == Get(merged, "concept_aliases", << >>)
            bs == Get(merged, "balance_sheet_concepts", << >>)
            named(n) == {i \in DOMAIN out : out[i].name = n /\ out[i].category = None}
            supplied(n) == \E j \in DOMAIN metrics : metrics[j]["name"] = n
            fresh == {k \in DOMAIN ca : ~supplied(ca[k].name)}
            listed == UNION {{<<k, j>> : j \in DOMAIN ListedAliases(bs[k].config)} :
                                k \in DOMAIN bs}
        IN  /\ \A k \in DOMAIN ca :
                  IF supplied(ca[k].name)
                  THEN named(ca[k].name) = {j \in DOMAIN metrics : metrics[j]["name"] = ca[k].name}
                  ELSE /\ Cardinality(named(ca[k].name)) = 1
                       /\ \A i \in named(ca[k].name) :
                             out[i] = Metric(ca[k].name, ca[k].aliases, PICK_FIRST)
            /\ \A k \in DOMAIN bs :
                  \A al \in Range(ListedAliases(bs[k].config)) :
                      LET rule == [Metric(al, <<al>>, LATEST_IN_YEAR) EXCEPT
                                      !.category = Some(BsPrefix \o bs[k].cat),
                                      !.years = ListedYears(bs[k].config)]
                      IN  Cardinality({i \in DOMAIN out : out[i] = rule})
                              = Cardinality({j \in DOMAIN ListedAliases(bs[k].config) :
                                                ListedAliases(bs[k].config)[j] = al})
            /\ Len(out) = Len(metrics) + Cardinality(fresh) + Cardinality(listed)

\* C22 witness: a parse has returned for a mapping whose metrics name
\* revenues, whose concept_aliases name revenues and income, and whose
\* balance sheet lists two aliases with years under assets in dict form and
\* one alias twice under liabilities in list form
C22_Witness ==
    /\ pc = "returned"
    /\ DOMAIN call[1].merged = {"metrics", "concept_aliases", "balance_sheet_concepts"}
    /\ Len(call[1].merged["metrics"]) = 1
    /\ Len(call[1].merged["concept_aliases"]) = 2
    /\ call[1].merged["balance_sheet_concepts"]
          = <<[cat |-> "liabilities", config |-> [list |-> <<A, A>>]],
              [cat |-> "assets",
               config |-> [dict |-> ("aliases" :> <<A, B>>) @@ ("years" :> D4(2023))]]>>
    /\ Len(ret[1]) = 6
    /\ \E i \in DOMAIN ret[1] : ret[1][i] = Metric("income", <<B>>, PICK_FIRST)

(***************************************************************************)
(* SpecAcc: a fresh Accumulator, update(val, date) called up to MaxUpdates *)
(* times with negative, fractional and repeated values and with empty,     *)
(* equal and out-of-order dates, and result(strategy) asked at any point.  *)
(* call holds the object and the calls made on it, ret the last result.    *)
(***************************************************************************)
MaxUpdates == 3

AccValues == {RatInt(0 - 2), Rat(1, 2), RatInt(1), RatInt(3)}

AccDates == {<< >>, Iso(2023, 3, 31), Iso(2023, 12, 31)}

Strategies == {PICK_FIRST, SUM, LATEST_IN_YEAR, MAX, MIN, AVG}

InitAcc ==
    /\ call = Some([acc |-> NewAccumulator, updates |-> << >>])
    /\ ret = None
    /\ pc = "acc"
    /\ RunIdle

\* acc.update(val, date)
AccUpdate ==
    /\ pc = "acc"
    /\ Len(call[1].updates) < MaxUpdates
    /\ \E val \in AccValues, date \in AccDates :
          call' = Some([acc |-> Update(call[1].acc, val, date),
                        updates |-> Append(call[1].updates,
                                           [value |-> val, date |-> date])])
    /\ ret' = None
    /\ UNCHANGED <<doc, cfg, pc, contexts, facts, fi, candidate_facts, gi, results, placed>>

\* acc.result(strategy)
AccResult ==
    /\ pc = "acc"
    /\ \E strategy \in Strategies :
          ret' = Some([strategy |-> strategy, value |-> Result(call[1].acc, strategy)])
    /\ UNCHANGED <<doc, cfg, pc, contexts, facts, fi, candidate_facts, gi, results,
                   placed, call>>

NextAcc == AccUpdate \/ AccResult

SpecAcc == InitAcc /\ [][NextAcc]_vars

\* the first call among those carrying the greatest date
FirstGreatest(us) ==
    CHOOSE i \in DOMAIN us :
        /\ \A j \in DOMAIN us : LexLeq(us[j].date, us[i].date)
        /\ \A j \in 1..(i - 1) : us[j].date # us[i].date

\* C23: after n >= 1 calls of update on a fresh Accumulator count = n, total
\* is the sum of the values, max_val and min_val are their maximum and
\* minimum, latest_value is the value of the first call among those carrying
\* the greatest date and lies between min_val and max_val; result() returns
\* total, total/count, max_val, min_val, latest_value for sum, avg, max, min,
\* latest_in_year, and None for every strategy when no update was made
C23_AccumulatorInvariant ==
    LET acc == call[1].acc
        us == call[1].updates
        n == Len(us)
    IN  pc = "acc" =>
          /\ n >= 1 =>
                /\ acc.count = n
                /\ acc.total = SumOver(us, DOMAIN us)
                /\ acc.max_val = Some(AggregateOf(MAX, us, DOMAIN us))
                /\ acc.min_val = Some(AggregateOf(MIN, us, DOMAIN us))
                /\ acc.latest_value = Some(us[FirstGreatest(us)].value)
                /\ RatLeq(acc.min_val[1], acc.latest_value[1])
                /\ RatLeq(acc.latest_value[1], acc.max_val[1])
          /\ ret # None =>
                IF n = 0 THEN ret[1].value = None
                ELSE CASE ret[1].strategy = SUM -> ret[1].value = Some(acc.total)
                       [] ret[1].strategy = AVG ->
                             ret[1].value = Some(AggregateOf(AVG, us, DOMAIN us))
                       [] ret[1].strategy = MAX -> ret[1].value = acc.max_val
                       [] ret[1].strategy = MIN -> ret[1].value = acc.min_val
                       [] ret[1].strategy = LATEST_IN_YEAR ->
                             ret[1].value = acc.latest_value
                       [] OTHER -> TRUE

\* C23 witness: three updates were made, the greatest date carried by the
\* second and the third with different values, the first the largest value,
\* and the average was asked for
C23_Witness ==
    /\ pc = "acc"
    /\ call[1].updates = <<[value |-> RatInt(3), date |-> Iso(2023, 3, 31)],
                           [value |-> RatInt(0 - 2), date |-> Iso(2023, 12, 31)],
                           [value |-> Rat(1, 2), date |-> Iso(2023, 12, 31)]>>
    /\ call[1].acc.latest_value = Some(RatInt(0 - 2))
    /\ ret = Some([strategy |-> AVG, value |-> Some(Rat(1, 2))])

\* C24: each indexed fact contributes at most once to the aggregate of a
\* (year, rule) pair: for every sum or avg rule, alias lists that repeat a
\* concept included, the value placed is the sum or the mean over the
\* distinct qualifying facts
C24_AtMostOnce ==
    pc = "done" =>
        \A rid \in RuleIds(cfg), year \in list_years(facts) :
            LET rule == RuleOf(cfg, rid)
                distinct == Qualifying(cfg, facts, year, rule)
            IN  (rule.strategy \in {SUM, AVG} /\ distinct # {}) =>
                    /\ rule.strategy = SUM =>
                          ValueAt(results, year, PathOf(rule))
                              = Some(SumOver(facts, distinct))
                    /\ rule.strategy = AVG =>
                          ValueAt(results, year, PathOf(rule))
                              = Some(RatDivInt(SumOver(facts, distinct),
                                               Cardinality(distinct)))

(***************************************************************************)
(* SpecOrder: extract_all on an index, then again on the same facts        *)
(* iterated in another order.  Facts of A and B in 2023 and 2024 with      *)
(* different values; a flat sum, max or min metric named m or segments     *)
(* over A or over A and B, and a sum segment rule on B: no two rules have  *)
(* the same placement path.                                                *)
(***************************************************************************)
OrderNames == {"m", "segments"}

OrderConfigs ==
    {Config(<<Metric(n, al, st)>>, <<Segment("s", B, SUM)>>) :
        n \in OrderNames, al \in {<<A>>, <<A, B>>}, st \in {SUM, MAX, MIN}}

InitOrder == \E d \in PlaceDocs, c \in OrderConfigs : Start(d, c)

\* the orders of n items
OrdersOf(n) == {p \in [1..n -> 1..n] : \A i, j \in 1..n : p[i] = p[j] => i = j}

\* extract_all(index, cfg) is called again with index.facts iterated in
\* another order; the outcome of the first call is kept aside
ExtractReordered ==
    /\ pc \in {"done", "error"}
    /\ call = None
    /\ \E p \in OrdersOf(Len(facts)) : facts' = [i \in DOMAIN facts |-> facts[p[i]]]
    /\ call' = Some([previous |-> results, ended |-> pc])
    /\ fi' = 0
    /\ candidate_facts' = << >>
    /\ gi' = 0
    /\ results' = EmptyDict
    /\ placed' = << >>
    /\ pc' = IF facts = << >> THEN "done" ELSE "collect"
    /\ UNCHANGED <<doc, cfg, contexts, ret>>

NextOrder == Next \/ ExtractReordered

SpecOrder == InitOrder /\ [][NextOrder]_vars

\* C25: when no two rules write to the same placement path, extract_all for
\* sum, max and min rules ends the same way and with the same result for
\* every iteration order of the same set of facts
C25_OrderIndependence ==
    (/\ pc \in {"done", "error"}
     /\ call # None
     /\ \A r1, r2 \in RuleIds(cfg) :
           r1 # r2 => PathOf(RuleOf(cfg, r1)) # PathOf(RuleOf(cfg, r2))
     /\ \A r \in RuleIds(cfg) : RuleOf(cfg, r).strategy \in {SUM, MAX, MIN})
        => /\ pc = call[1].ended
           /\ pc = "done" => results = call[1].previous

\* C26: extract_all completes without error whatever names the metric rules
\* carry, and in the result it returns, for every year, the segments entry
\* (when present) is a mapping from segment-rule name to value and the
\* balance_sheet entry (when present) is a mapping from category to a
\* mapping from metric name to value
C26_ShapeIntegrity ==
    /\ pc # "error"
    /\ pc = "done" =>
          \A year \in DOMAIN results :
              /\ "segments" \in DOMAIN results[year] =>
                    /\ IsDict(results[year]["segments"])
                    /\ \A n \in DOMAIN results[year]["segments"].dict :
                          /\ \E i \in DOMAIN cfg.segments : cfg.segments[i].name = n
                          /\ ~IsDict(results[year]["segments"].dict[n])
              /\ "balance_sheet" \in DOMAIN results[year] =>
                    /\ IsDict(results[year]["balance_sheet"])
                    /\ \A cat \in DOMAIN results[year]["balance_sheet"].dict :
                          /\ IsDict(results[year]["balance_sheet"].dict[cat])
                          /\ \A n \in DOMAIN results[year]["balance_sheet"].dict[cat].dict :
                                /\ \E i \in DOMAIN cfg.metrics : cfg.metrics[i].name = n
                                /\ ~IsDict(results[year]["balance_sheet"].dict[cat].dict[n])

(***************************************************************************)
(* SpecResultYears: the years of the result.  Facts of A and B in a fiscal *)
(* year that starts in 2022 and ends in 2023, at an instant of 2024, in a  *)
(* context with a start date of 2022 and no end, and in a context with no  *)
(* period; on A a sum metric, flat or under a balance-sheet category, for  *)
(* every year or for 2023 alone; on B a segment rule or a balance-sheet    *)
(* metric.                                                                 *)
(***************************************************************************)
ResultYearContexts ==
    <<DurationCtx("FY23", Iso(2022, 7, 1), Iso(2023, 6, 30), << >>),
      InstantCtx("Y24", Iso(2024, 12, 31), << >>),
      StartOnlyCtx("S22", Iso(2022, 1, 1)),
      NoPeriodCtx("N")>>

ResultYearDocs ==
    Documents(ResultYearContexts, {"A", "B"} \X {"FY23", "Y24", "S22", "N"} \X {"USD"})

ResultYearConfigs ==
    {Config(<<[Metric("m", <<A>>, SUM) EXCEPT !.category = cat, !.years = yr]>>
                \o (IF second = "metric"
                    THEN <<[Metric("Assets", <<B>>, LATEST_IN_YEAR)
                               EXCEPT !.category = Some("balance_sheet.assets")]>>
                    ELSE << >>),
            IF second = "segment" THEN <<Segment("s", B, SUM)>> ELSE << >>) :
        cat \in {None, Some("balance_sheet.assets.current")},
        yr \in {None, Some(D4(2023))}, second \in {"metric", "segment"}}

InitResultYears == \E d \in ResultYearDocs, c \in ResultYearConfigs : Start(d, c)

SpecResultYears == InitResultYears /\ [][Next]_vars

\* the first four characters of the end slot, or of the start slot when the
\* end slot is empty
DerivedYear(period_key) ==
    IF period_key[2] # << >> THEN SubSeq(period_key[2], 1, 4)
    ELSE IF period_key[1] # << >> THEN SubSeq(period_key[1], 1, 4)
    ELSE << >>

\* C27: every year key of the result returned by extract_all is the derived
\* year of a fact of the index (a member of list_years); a fact whose derived
\* year is empty is a candidate for no year; every year record of the result
\* holds at least one value, and no segments or balance_sheet sub-mapping in
\* it is empty
C27_ResultYearsFromIndex ==
    /\ \A k \in DOMAIN candidate_facts :
          \A j \in DOMAIN candidate_facts[k].cands :
              /\ DerivedYear(candidate_facts[k].cands[j].period_key) # << >>
              /\ DerivedYear(candidate_facts[k].cands[j].period_key) = candidate_facts[k].year
    /\ pc = "done" =>
          \A year \in DOMAIN results :
              /\ \E i \in DOMAIN facts : DerivedYear(facts[i].period_key) = year
              /\ year \in list_years(facts)
              /\ year # << >>
              /\ LeafPaths(results[year]) # {}
              /\ \A k \in DOMAIN results[year] :
                    IsDict(results[year][k]) =>
                        /\ DOMAIN results[year][k].dict # {}
                        /\ \A c \in DOMAIN results[year][k].dict :
                              IsDict(results[year][k].dict[c]) =>
                                  DOMAIN results[year][k].dict[c].dict # {}

\* C27 witness: the index holds a fact of A with no period, a fact of A with
\* a start date of 2022 only and a fact of B of the fiscal year ending in
\* 2023; the result returned has exactly the years 2022 and 2023
C27_Witness ==
    /\ pc = "done"
    /\ cfg.segments # << >>
    /\ \E i \in DOMAIN facts : facts[i].concept = A /\ facts[i].period_key = NoPeriodKey
    /\ \E i \in DOMAIN facts : facts[i].concept = A /\ facts[i].context_id = "S22"
    /\ \E i \in DOMAIN facts : facts[i].concept = B /\ facts[i].context_id = "FY23"
    /\ DOMAIN results = {D4(2022), D4(2023)}
    /\ DOMAIN results[D4(2023)] = {"segments"}

(***************************************************************************)
(* Multi-year backfill (main.py), phase 2 of extract_multi_year_data.      *)
(* A year record is a result record of extract_all; the missing-data       *)
(* record of a year is [metrics, segments, balance_sheet] with the first   *)
(* two as lists of names and the last as a mapping with the keys any or    *)
(* assets.  In these runs results is combined_results, call holds the      *)
(* filings with what extract_all gives for each (ok is FALSE when the      *)
(* filing fails to process), ret is years_with_missing_data and fi counts  *)
(* the filings checked.                                                    *)
(***************************************************************************)
\* _find_missing_data(year_data, cfg, year)
_find_missing_data(year_data, c, year) ==
    LET segments_data == Get(year_data, "segments", Dict(EmptyDict)).dict
        balance_sheet == Get(year_data, "balance_sheet", Dict(EmptyDict)).dict
        Lacking(rule) == /\ year_matches_range(year, rule.years) = Some(TRUE)
                         /\ rule.name \notin DOMAIN segments_data
        lacking == SelectSeq(c.segments, Lacking)
    IN  [segments |-> [i \in DOMAIN lacking |-> lacking[i].name],
         metrics |-> IF "revenues" \notin DOMAIN year_data THEN <<"revenues">> ELSE << >>,
         balance_sheet |-> IF DOMAIN balance_sheet = {} THEN ("any" :> TRUE)
                           ELSE IF "assets" \notin DOMAIN balance_sheet
                           THEN ("assets" :> TRUE)
                           ELSE EmptyDict]

\* missing["segments"] or missing["metrics"] or missing["balance_sheet"]
AnyMissing(missing) ==
    missing.segments # << >> \/ missing.metrics # << >> \/ DOMAIN missing.balance_sheet # {}

\* "for missing_segment in missing['segments']": [segments, filled]
RECURSIVE FillSegments(_, _, _, _)
FillSegments(primary_segments, additional_segments, names, filled) ==
    IF names = << >> THEN [segments |-> primary_segments, filled |-> filled]
    ELSE IF names[1] \in DOMAIN additional_segments
    THEN FillSegments(Put(primary_segments, names[1], additional_segments[names[1]]),
                      additional_segments, Tail(names),
                      Append(filled, "segment:" \o names[1]))
    ELSE FillSegments(primary_segments, additional_segments, Tail(names), filled)

\* "for missing_metric in missing['metrics']": [data, filled]
RECURSIVE FillMetrics(_, _, _, _)
FillMetrics(merged_data, additional_data, names, filled) ==
    IF names = << >> THEN [data |-> merged_data, filled |-> filled]
    ELSE IF names[1] \in DOMAIN additional_data
    THEN FillMetrics(Put(merged_data, names[1], additional_data[names[1]]),
                     additional_data, Tail(names), Append(filled, "metric:" \o names[1]))
    ELSE FillMetrics(merged_data, additional_data, Tail(names), filled)

\* the balance-sheet part of _merge_missing_data: [data, filled]
FillBalanceSheet(merged_data, additional_data, missing, filled) ==
    LET additional_bs == Get(additional_data, "balance_sheet", Dict(EmptyDict)).dict
        primary_bs == Get(merged_data, "balance_sheet", Dict(EmptyDict)).dict
    IN  IF DOMAIN missing.balance_sheet = {} \/ DOMAIN additional_bs = {}
        THEN [data |-> merged_data, filled |-> filled]
        ELSE IF "assets" \in DOMAIN missing.balance_sheet /\ "assets" \in DOMAIN additional_bs
        THEN [data |-> Put(merged_data, "balance_sheet",
                           Dict(Put(primary_bs, "assets", additional_bs["assets"]))),
              filled |-> Append(filled, "balance_sheet:assets")]
        ELSE [data |-> Put(merged_data, "balance_sheet", Dict(primary_bs)),
              filled |-> filled]

\* mutant of _merge_missing_data: merged_data.update(additional_data)
MergeByUpdate(primary_data, additional_data, missing, year) ==
    [merged |-> [k \in DOMAIN primary_data \cup DOMAIN additional_data |->
                    IF k \in DOMAIN additional_data THEN additional_data[k]
                    ELSE primary_data[k]],
     filled |-> <<"all">>]

\* _merge_missing_data(primary_data, additional_data, missing, year):
\* [merged, filled]
_merge_missing_data(primary_data, additional_data, missing, year) ==
    LET segs == IF missing.segments = << >>
                THEN [data |-> primary_data, filled |-> << >>]
                ELSE LET r == FillSegments(
                                  Get(primary_data, "segments", Dict(EmptyDict)).dict,
                                  Get(additional_data, "segments", Dict(EmptyDict)).dict,
                                  missing.segments, << >>)
                     IN  [data |-> Put(primary_data, "segments", Dict(r.segments)),
                          filled |-> r.filled]
        mets == FillMetrics(segs.data, additional_data, missing.metrics, segs.filled)
        bs == FillBalanceSheet(mets.data, additional_data, missing, mets.filled)
    IN  [merged |-> bs.data, filled |-> bs.filled]

\* "for year, missing in list(years_with_missing_data.items())" for the
\* result fres of one filing: [combined, tracker]
RECURSIVE BackfillYears(_, _, _, _, _)
BackfillYears(combined, tracker, fres, c, years) ==
    IF years = << >> THEN [combined |-> combined, tracker |-> tracker]
    ELSE IF YearStr(years[1]) \notin DOMAIN fres
    THEN BackfillYears(combined, tracker, fres, c, Tail(years))
    ELSE LET year == years[1]
             m == _merge_missing_data(combined[YearStr(year)], fres[YearStr(year)],
                                      tracker[year], year)
             updated_missing == _find_missing_data(m.merged, c, year)
         IN  IF m.filled = << >>
             THEN BackfillYears(combined, tracker, fres, c, Tail(years))
             ELSE BackfillYears(
                      Put(combined, YearStr(year), m.merged),
                      IF AnyMissing(updated_missing)
                      THEN Put(tracker, year, updated_missing)
                      ELSE [y \in DOMAIN tracker \ {year} |-> tracker[y]],
                      fres, c, Tail(years))

\* "First, identify what's missing for each year"
IdentifyMissing ==
    /\ pc = "identify"
    /\ LET lacking == {y \in DOMAIN results :
                          AnyMissing(_find_missing_data(results[y], cfg, DigitsValue(y)))}
       IN  /\ ret' = Some([year \in {DigitsValue(y) : y \in lacking} |->
                              _find_missing_data(results[YearStr(year)], cfg, year)])
           /\ pc' = IF lacking = {} THEN "finished" ELSE "backfill"
    /\ UNCHANGED <<doc, cfg, contexts, facts, fi, candidate_facts, gi, results, placed, call>>

\* one pass of "for filing in backfill_filings"
BackfillFiling ==
    /\ pc = "backfill"
    /\ DOMAIN ret[1] # {}
    /\ fi < Len(call[1].filings)
    /\ fi' = fi + 1
    /\ \E r \in {IF call[1].filings[fi + 1].ok
                 THEN BackfillYears(results, ret[1], call[1].filings[fi + 1].results, cfg,
                                    SortedOf(DOMAIN ret[1]))
                 ELSE [combined |-> results, tracker |-> ret[1]]} :
          /\ results' = r.combined
          /\ ret' = Some(r.tracker)
    /\ UNCHANGED <<doc, cfg, pc, contexts, facts, candidate_facts, gi, placed, call>>

\* the loop ends: every gap is filled, or every filing was checked
BackfillEnd ==
    /\ pc = "backfill"
    /\ DOMAIN ret[1] = {} \/ fi = Len(call[1].filings)
    /\ pc' = "finished"
    /\ UNCHANGED <<doc, cfg, contexts, facts, fi, candidate_facts, gi, results, placed,
                   call, ret>>

NextBackfill == IdentifyMissing \/ BackfillFiling \/ BackfillEnd

(***************************************************************************)
(* SpecBackfill: records for 2022 and 2023 after the primary filings, and  *)
(* up to MaxFilings filings to backfill from; segment rule s applies to    *)
(* every year and t to 2023 alone.  A record holds revenues or not, some   *)
(* of the segments, and some of the balance-sheet categories assets and    *)
(* liabilities; every value of the primary filings is 1 and every value of *)
(* the k-th backfill filing is 10 * k.                                     *)
(***************************************************************************)
MaxFilings == 2

BackfillConfig ==
    Config(<< >>, <<Segment("s", B, SUM),
                    [Segment("t", A, SUM) EXCEPT !.years = Some(D4(2023))]>>)

\* the year record with revenues or not, the segments segs and the
\* balance-sheet categories cats, every value v
YearRecord(rev, segs, cats, v) ==
    [k \in (IF rev THEN {"revenues"} ELSE {})
           \cup (IF segs # {} THEN {"segments"} ELSE {})
           \cup (IF cats # {} THEN {"balance_sheet"} ELSE {}) |->
        IF k = "revenues" THEN RatInt(v)
        ELSE IF k = "segments" THEN Dict([n \in segs |-> RatInt(v)])
        ELSE Dict([c \in cats |-> Dict([m \in {"Total"} |-> RatInt(v)])])]

RecordShapes ==
    {<<TRUE, {}, {}>>, <<FALSE, {"s"}, {}>>, <<TRUE, {}, {"liabilities"}>>,
     <<FALSE, {"t"}, {"assets"}>>, <<TRUE, {"s", "t"}, {"assets", "liabilities"}>>}

\* results of a filing or of the primary phase: a record for 2023 of one of
\* the shapes sh23 or none, and a record for 2022 of one of sh22 or none
YearResults(sh23, sh22, v) ==
    {[y \in (IF a = << >> THEN {} ELSE {D4(2023)})
            \cup (IF b = << >> THEN {} ELSE {D4(2022)}) |->
        IF y = D4(2023) THEN YearRecord(a[1], a[2], a[3], v)
        ELSE YearRecord(b[1], b[2], b[3], v)] :
        a \in sh23 \cup {<< >>}, b \in sh22 \cup {<< >>}}

PrimaryResults ==
    {r \in YearResults(RecordShapes, {<<TRUE, {}, {}>>, <<TRUE, {"s"}, {"assets"}>>}, 1) :
        D4(2023) \in DOMAIN r}

\* what the k-th filing gives: it fails, or extract_all returns its results
FilingOutcomes(k) ==
    {[ok |-> FALSE, results |-> EmptyDict]}
    \cup {[ok |-> TRUE, results |-> r] :
            r \in YearResults(RecordShapes, {<<FALSE, {"s"}, {"assets"}>>}, 10 * k)}

FilingsU ==
    UNION {{f \in [1..n -> UNION {FilingOutcomes(k) : k \in 1..n}] :
               \A k \in 1..n : f[k] \in FilingOutcomes(k)} :
           n \in 1..MaxFilings}

InitBackfill ==
    /\ \E filings \in FilingsU : call = Some([filings |-> filings])
    /\ \E r \in PrimaryResults : results = r
    /\ cfg = BackfillConfig
    /\ ret = None
    /\ pc = "identify"
    /\ fi = 0
    /\ doc = [contexts |-> << >>, elems |-> << >>]
    /\ contexts = EmptyDict
    /\ facts = << >>
    /\ candidate_facts = << >>
    /\ gi = 0
    /\ placed = << >>

SpecBackfill == InitBackfill /\ [][NextBackfill]_vars

\* the missing-data record lists the item the path p of a year record
\* belongs to
ListedMissing(missing, p) ==
    \/ Len(p) >= 2 /\ p[1] = "segments" /\ p[2] \in Range(missing.segments)
    \/ Len(p) = 1 /\ p[1] \in Range(missing.metrics)
    \/ Len(p) >= 2 /\ p[1] = "balance_sheet" /\ p[2] \in DOMAIN missing.balance_sheet

\* C28: in the backfill phase every value a year's record holds is still
\* there and unchanged after each step; a value a step adds was listed as
\* missing for that year and is the value the filing gives at that place;
\* and the missing items tracked for a year never grow
C28_BackfillNeverOverwrites ==
    [][pc = "backfill" =>
          /\ DOMAIN results' = DOMAIN results
          /\ \A y \in DOMAIN results :
                /\ \A p \in LeafPaths(results[y]) :
                      Lookup(results'[y], p) = Lookup(results[y], p)
                /\ \A p \in LeafPaths(results'[y]) \ LeafPaths(results[y]) :
                      /\ DigitsValue(y) \in DOMAIN ret[1]
                      /\ ListedMissing(ret[1][DigitsValue(y)], p)
                      /\ call[1].filings[fi'].ok
                      /\ y \in DOMAIN call[1].filings[fi'].results
                      /\ Lookup(call[1].filings[fi'].results[y], p) = Lookup(results'[y], p)
          /\ DOMAIN ret'[1] \subseteq DOMAIN ret[1]
          /\ \A year \in DOMAIN ret'[1] :
                /\ Range(ret'[1][year].segments) \subseteq Range(ret[1][year].segments)
                /\ Range(ret'[1][year].metrics) \subseteq Range(ret[1][year].metrics)
                /\ DOMAIN ret'[1][year].balance_sheet
                      \subseteq DOMAIN ret[1][year].balance_sheet]_vars

\* C28 witness: the first filing gave revenues and segment s for 2023; the
\* record of 2023, which held revenues from its primary filing and no
\* segments, now holds the segment of the filing and still its own revenues
C28_Witness ==
    /\ pc \in {"backfill", "finished"}
    /\ fi >= 1
    /\ D4(2023) \in DOMAIN call[1].filings[1].results
    /\ "revenues" \in DOMAIN call[1].filings[1].results[D4(2023)]
    /\ {"revenues", "segments"} \subseteq DOMAIN results[D4(2023)]
    /\ results[D4(2023)]["revenues"] = RatInt(1)
    /\ "s" \in DOMAIN results[D4(2023)]["segments"].dict
    /\ results[D4(2023)]["segments"].dict["s"] = RatInt(10)

\* the year record holds balance-sheet assets
HasAssets(year_data) ==
    /\ "balance_sheet" \in DOMAIN year_data
    /\ "assets" \in DOMAIN year_data["balance_sheet"].dict

\* C29: when the backfill loop has ended, a year's record holds
\* balance-sheet assets if some successfully processed filing gives
\* balance-sheet assets for that year, whether the record had other
\* balance-sheet categories or no balance-sheet data at all
C29_BackfillAssets ==
    pc = "finished" =>
        \A y \in DOMAIN results :
            (\E k \in DOMAIN call[1].filings :
                /\ call[1].filings[k].ok
                /\ y \in DOMAIN call[1].filings[k].results
                /\ HasAssets(call[1].filings[k].results[y]))
            => HasAssets(results[y])

(***************************************************************************)
(* SECClient.fetch_xml(xml_url) (sec_client.py).  One step is one pass of  *)
(* "for attempt in range(max_retries)": the request, and what follows its  *)
(* outcome.  In these runs fi is the number of passes made, call holds the *)
(* url and the outcome of every request made, and ret what fetch_xml gave: *)
(* the text it returned or the error it raised.                            *)
(***************************************************************************)
max_retries == 3

FetchUrls == {"https://www.sec.gov/a_htm.xml", "https://www.sec.gov/b_htm.xml"}

\* what session.get and raise_for_status can end with: a response with its
\* text, requests.exceptions.Timeout, or any other exception
FetchOutcomes ==
    {[kind |-> "ok", text |-> t] : t \in {"<xbrl/>", "<xbrl>1</xbrl>", ""}}
    \cup {[kind |-> "timeout", text |-> ""]}
    \cup {[kind |-> "error", text |-> e] : e \in {"HTTPError", "ConnectionError"}}

\* mutant of InRange: one more pass than max_retries
RangeInclusive(attempt) == attempt <= max_retries

\* attempt in range(max_retries)
InRange(attempt) == attempt < max_retries

InitFetch ==
    /\ \E u \in FetchUrls : call = Some([xml_url |-> u, outcomes |-> << >>])
    /\ ret = None
    /\ pc = IF InRange(0) THEN "fetch" ELSE "raised"
    /\ fi = 0
    /\ doc = [contexts |-> << >>, elems |-> << >>]
    /\ cfg = Config(<< >>, << >>)
    /\ contexts = EmptyDict
    /\ facts = << >>
    /\ candidate_facts = << >>
    /\ gi = 0
    /\ results = EmptyDict
    /\ placed = << >>

\* one pass of the loop of fetch_xml with attempt = fi
FetchAttempt ==
    /\ pc = "fetch"
    /\ \E o \in FetchOutcomes :
          /\ call' = Some([call[1] EXCEPT !.outcomes = Append(@, o)])
          /\ IF o.kind = "ok"
             THEN /\ ret' = Some([kind |-> "text", value |-> o.text])
                  /\ pc' = "returned"
             ELSE IF o.kind = "error" /\ fi = max_retries - 1
             THEN /\ ret' = Some([kind |-> "raised", value |-> o.text])
                  /\ pc' = "raised"
             ELSE IF InRange(fi + 1)
             THEN /\ ret' = None
                  /\ pc' = "fetch"
             ELSE /\ ret' = Some([kind |-> "raised", value |-> "RuntimeError"])
                  /\ pc' = "raised"
    /\ fi' = fi + 1
    /\ UNCHANGED <<doc, cfg, contexts, facts, candidate_facts, gi, results, placed>>

NextFetch == FetchAttempt

\* every request ends (timeout=(10, 60)) and time.sleep(2) returns, so a
\* pass that can be made is made
SpecFetch == InitFetch /\ [][NextFetch]_vars /\ WF_vars(FetchAttempt)

\* C30: fetch_xml makes at most 3 request attempts; it returns the text of
\* the first successful attempt and makes no attempt after it; when all 3
\* attempts fail, by timeout or by any other error, it raises and returns no
\* value; and it always terminates
C30_BoundedFetchRetry ==
    /\ [](LET outcomes == call[1].outcomes
              failed(k) == outcomes[k].kind \in {"timeout", "error"}
          IN  /\ Len(outcomes) <= 3
              /\ \A k \in 1..(Len(outcomes) - 1) : failed(k)
              /\ pc = "returned" <=> (outcomes # << >> /\ ~failed(Len(outcomes)))
              /\ pc = "returned" =>
                    ret = Some([kind |-> "text", value |-> outcomes[Len(outcomes)].text])
              /\ pc = "raised" <=> (Len(outcomes) = 3 /\ \A k \in 1..3 : failed(k))
              /\ pc = "raised" => (ret # None /\ ret[1].kind = "raised")
              /\ pc = "fetch" => ret = None)
    /\ <>(pc \in {"returned", "raised"})
    /\ [][(pc = "returned" \/ pc = "raised") => vars' = vars]_vars

\* C30 witness: the first request timed out, the second failed with another
\* error, the third succeeded and its text was returned
C30_Witness ==
    /\ pc = "returned"
    /\ Len(call[1].outcomes) = 3
    /\ call[1].outcomes[1].kind = "timeout"
    /\ call[1].outcomes[2].kind = "error"
    /\ call[1].outcomes[3] = [kind |-> "ok", text |-> "<xbrl>1</xbrl>"]
    /\ ret = Some([kind |-> "text", value |-> "<xbrl>1</xbrl>"])

=============================================================================
